---- MODULE Spec2Model ----
(***************************************************************************)
(* Model of the POS back-office API: the sale-creation transaction         *)
(* (api/pos_sales.py), the request schema (api/schemas/pos_schemas.py),    *)
(* the store tables (models/pos_models.py) and the notification           *)
(* dispatcher.                                                             *)
(*                                                                         *)
(* Decimal amounts are integers counting thousandths (18.00 is 18000):     *)
(* Python's Decimal arithmetic is exact at this scale.  A Python None is   *)
(* the empty sequence <<>> and a present value a one-element sequence.     *)
(***************************************************************************)
EXTENDS Integers, Sequences, FiniteSets, TLC

(* ------------------------------ bounds --------------------------------- *)

\* create_sale requests begun in one behaviour
MaxRequests == 2
\* longest payment allocation sequence handed to payment reconciliation
MaxAllocs == 2
\* back-office operations (all operations but create_sale) in one behaviour
MaxOps == 2

(* ------------------------- Decimal and JSON ---------------------------- *)

\* abs() of a Decimal
Abs(x) == IF x < 0 THEN -x ELSE x

\* Decimal('0.01'), in thousandths
Tolerance == 10

\* Decimal(str(n)) for an int n: n units, exactly
DecimalOfInt(n) == n * 1000

RECURSIVE Digits(_)
\* the decimal digits of a natural number, most significant first
Digits(n) == IF n < 10 THEN <<n>> ELSE Append(Digits(n \div 10), n % 10)

\* str(d) for a Decimal d (serialize_for_json): sign and digits of the
\* thousandths
DecimalToStr(d) == [neg |-> d < 0, digits |-> Digits(Abs(d))]

RECURSIVE DigitsValue(_)
DigitsValue(ds) ==
    IF ds = <<>> THEN 0
    ELSE 10 * DigitsValue(SubSeq(ds, 1, Len(ds) - 1)) + ds[Len(ds)]

\* Decimal(s) for a string s written by DecimalToStr
DecimalOfStr(s) == IF s.neg THEN -DigitsValue(s.digits) ELSE DigitsValue(s.digits)

RECURSIVE total_payments(_)
\* sum(pm.amount for pm in payment_methods): starts at 0, adds left to right
total_payments(pms) ==
    IF pms = <<>> THEN 0
    ELSE total_payments(SubSeq(pms, 1, Len(pms) - 1)) + pms[Len(pms)].amount

\* serialize_for_json(sale_data.payment_methods) then json.dumps: every
\* Decimal amount becomes its string
set_payment_methods(pms) ==
    [i \in 1..Len(pms) |-> [method |-> pms[i].method,
                            amount |-> DecimalToStr(pms[i].amount)]]

\* Sale.get_payment_methods() read back with Decimal amounts, as the
\* response schema (PaymentMethodItem.amount: Decimal) parses them
get_payment_methods(js) ==
    [i \in 1..Len(js) |-> [method |-> js[i].method,
                           amount |-> DecimalOfStr(js[i].amount)]]

\* serialize_for_json(sale_data.items) then json.dumps
set_items(items) ==
    [i \in 1..Len(items) |->
        [type |-> items[i].type, product_id |-> items[i].product_id,
         name |-> items[i].name, description |-> items[i].description,
         unit_price |-> DecimalToStr(items[i].unit_price),
         quantity |-> items[i].quantity,
         total |-> DecimalToStr(items[i].total)]]

\* Sale.get_items() read back with Decimal prices, as the response schema
\* (SaleItem.unit_price, SaleItem.total: Decimal) parses them
get_items(js) ==
    [i \in 1..Len(js) |->
        [type |-> js[i].type, product_id |-> js[i].product_id,
         name |-> js[i].name, description |-> js[i].description,
         unit_price |-> DecimalOfStr(js[i].unit_price),
         quantity |-> js[i].quantity,
         total |-> DecimalOfStr(js[i].total)]]

(* ------------------------- payment reconciliation ---------------------- *)

\* the validator with ">=" written for ">"
validate_payment_methods_raises_ge(total_amount, v) ==
    Abs(total_payments(v) - total_amount) >= Tolerance

\* SaleRequest.validate_payment_methods: TRUE when the validator raises
validate_payment_methods_raises(total_amount, v) == Abs(total_payments(v) - total_amount) > Tolerance

\* ">=" written for ">"
PaymentMismatchGe(sale_data) ==
    Abs(total_payments(sale_data.payment_methods) - sale_data.total_amount) >= Tolerance
\* the check left out
PaymentMismatchNever(sale_data) == FALSE
\* create_sale's own check (lines 66-67): TRUE when it raises the 400
PaymentMismatch(sale_data) ==
    Abs(total_payments(sale_data.payment_methods) - sale_data.total_amount) > Tolerance

(* ------------------------------ identifiers ---------------------------- *)

Workers == {"w1", "w2"}

\* customer ids a request may name; "cX" never names a row
CustomerIds == {"c1", "c2", "cX"}
\* staff ids a request may name; "sX" never names a row
StaffIds == {"s1", "s2", "sX"}
SignalIds == {"g1", "g2"}
WebhookIds == {"h1", "h2", "h3"}

(* ------------------------------ requests ------------------------------- *)

Cash(a) == [method |-> "cash", amount |-> a]
Card(a) == [method |-> "card", amount |-> a]

\* one product line of 18.00
OneItem == << [type |-> "product", product_id |-> "p1", name |-> "Test Product",
               description |-> "Sold by the piece",
               unit_price |-> 18000, quantity |-> 1, total |-> 18000] >>

\* payment allocations against a total of 18.00: exact, within the tolerance
\* by exactly 0.01, and off by 0.50
PaymentChoices == { << Cash(18000) >>, << Card(10000), Cash(7990) >>, << Cash(17500) >> }

\* a token of an active ADMIN user, and one of an active MEMBER user
AdminToken == [agent |-> <<>>, user |-> << [is_active |-> TRUE, role |-> "ADMIN"] >>]
MemberToken == [agent |-> <<>>, user |-> << [is_active |-> TRUE, role |-> "MEMBER"] >>]

SaleRequestOf(via, token, c, s, pms, lpg) ==
    [via |-> via, token |-> token, customer_id |-> c, staff_id |-> s, items |-> OneItem,
     subtotal |-> 18000, discount_amount |-> 0, total_amount |-> 18000,
     loyalty_points_generated |-> lpg, payment_methods |-> pms]

\* "http": the request arrives over HTTP and SaleRequest is built and
\* validated by the framework; "call": create_sale is invoked with a
\* SaleRequest object as the test-suite does
Requests ==
    { SaleRequestOf(via, token, c, s, pms, lpg) :
        via \in {"http", "call"}, token \in {AdminToken, MemberToken},
        c \in CustomerIds, s \in StaffIds,
        pms \in PaymentChoices, lpg \in {18} }

\* the requests of the concurrent specification: all for customer c1
ConcRequests ==
    { SaleRequestOf("http", AdminToken, "c1", "s1", << Cash(18000) >>, lpg) :
        lpg \in {5, 18} }

(* ------------------------------- state --------------------------------- *)

VARIABLES
    customers,   \* Customer table: id -> row (committed state)
    staff,       \* Staff table: id -> row
    signals,     \* SaleSignal table: id -> row
    sales,       \* Sale table: committed rows in insertion order
    pc,          \* per worker: the line of create_sale it is at
    req,         \* per worker: the SaleRequest in hand
    sess,        \* per worker: its Session (loaded objects, pending writes)
                 \*   and its BackgroundTasks
    resp,        \* per worker: the answer to its last request
    pre,         \* per worker: the store as it was when the request began
    nreq,        \* requests begun
    nextId,      \* id_generator: next fresh id
    clock,       \* datetime.now()
    dispatches,  \* background tasks handed to the event loop
    posts,       \* <<sale id, target id>> -> number of POSTs issued
    serial,      \* TRUE: one server process (worker w1 alone, its async
                 \*   handler runs a request to its end before the next);
                 \*   FALSE: two server processes on the one store
    recon,       \* payment reconciliation applied to one input
    products,    \* Product table: id -> row
    webhooks,    \* SaleWebhook table: id -> row
    attempts,    \* log of the dispatchers' attempts: sale, target, outcome
    ops,         \* back-office operations (all but create_sale) handled
    last,        \* the last back-office operation and its answer
    mode         \* "sales": create_sale requests only; "office": the
                 \*   other operations of the API are called as well;
                 \*   "gate": every operation, by every kind of caller;
                 \*   "ledger": sales and customer management

vars == << customers, staff, signals, sales, pc, req, sess, resp, pre, nreq,
           nextId, clock, dispatches, posts, serial, recon,
           products, webhooks, attempts, ops, last, mode >>

\* the state create_sale neither reads nor writes
office == << products, webhooks, attempts, ops, last, mode >>

NoSession == [customer |-> <<>>, staff |-> <<>>, new_sale |-> <<>>,
              flushed |-> FALSE, loaded_points |-> <<>>, bg |-> <<>>]

NoRecon == [total_amount |-> 0, payment_methods |-> <<>>, schema |-> "none",
            handler |-> "none"]

InitStore ==
    /\ customers = [c \in {"c1", "c2"} |->
                      [phone |-> IF c = "c1" THEN "555-0001" ELSE "555-0002",
                       name |-> IF c = "c1" THEN "John Doe" ELSE "Jane Roe",
                       loyalty_points |-> IF c = "c1" THEN 50000 ELSE 0,
                       is_active |-> TRUE, updated_at |-> 0]]
    /\ staff = [s \in {"s1", "s2"} |-> [name |-> s, is_active |-> s = "s1", updated_at |-> 0]]
    /\ sales = <<>>
    /\ products = [p \in {"p1"} |->
                     [name |-> "Test Product", description |-> << "Sold by the piece" >>,
                      price |-> 18000, is_active |-> TRUE, updated_at |-> 0]]

InitWorkers ==
    /\ pc = [w \in Workers |-> "idle"]
    /\ req = [w \in Workers |-> <<>>]
    /\ sess = [w \in Workers |-> NoSession]
    /\ resp = [w \in Workers |-> <<>>]
    /\ pre = [w \in Workers |-> <<>>]
    /\ nreq = 0
    /\ nextId = 1
    /\ clock = 1
    /\ dispatches = {}
    /\ posts = << >>
    /\ attempts = << >>
    /\ ops = 0
    /\ last = << >>

Init ==
    /\ InitStore
    /\ signals = [g \in SignalIds |-> [is_active |-> g = "g1"]]
    /\ webhooks = [h \in WebhookIds |-> [is_active |-> h = "h1"]]
    /\ InitWorkers
    /\ serial = TRUE
    /\ mode = "sales"
    /\ recon = NoRecon

\* the one create_sale request sent while the back office is at work
OfficeRequests ==
    { SaleRequestOf("http", AdminToken, "c1", "s1", << Cash(18000) >>, 18) }

\* tokens of an active agent, of an active agent that also carries a MEMBER
\* user, of an inactive agent that also carries an active ADMIN user, of an
\* inactive ADMIN user, and one that carries neither agent nor user
AgentToken == [agent |-> << [is_active |-> TRUE] >>, user |-> <<>>]
AgentMemberToken ==
    [agent |-> << [is_active |-> TRUE] >>,
     user |-> << [is_active |-> TRUE, role |-> "MEMBER"] >>]
InactiveAgentAdminToken ==
    [agent |-> << [is_active |-> FALSE] >>,
     user |-> << [is_active |-> TRUE, role |-> "ADMIN"] >>]
InactiveAdminToken == [agent |-> <<>>, user |-> << [is_active |-> FALSE, role |-> "ADMIN"] >>]
AnonymousToken == [agent |-> <<>>, user |-> <<>>]

\* the callers the gate is tried with
GateTokens == {AdminToken, MemberToken, AgentToken, AgentMemberToken,
               InactiveAgentAdminToken, InactiveAdminToken, AnonymousToken}

\* create_sale requests of those callers, with payments that reconcile and
\* payments that do not
GateRequests ==
    { SaleRequestOf("http", t, "c1", "s1", pms, 18) :
        t \in GateTokens, pms \in { << Cash(18000) >>, << Cash(17500) >> } }

\* a sale of 18.00 paid from the loyalty wallet
Wallet(a) == [method |-> "loyalty_points", amount |-> a]

\* create_sale requests for c1 paid in cash, and paid with loyalty points
LedgerRequests ==
    { SaleRequestOf("http", AdminToken, "c1", "s1", pms, 18) :
        pms \in { << Cash(18000) >>, << Wallet(18000) >> } }

Pool == IF mode = "office" THEN OfficeRequests
        ELSE IF mode = "gate" THEN GateRequests
        ELSE IF mode = "ledger" THEN LedgerRequests
        ELSE IF serial THEN Requests ELSE ConcRequests

\* the framework hands a request to a worker
Begin(w, r) ==
    /\ pc[w] = "idle"
    /\ nreq < MaxRequests
    \* with many kinds of call, the calls of a behaviour are counted together
    /\ mode \in {"gate", "ledger"} => nreq + ops < MaxRequests
    /\ serial => w = "w1"
    /\ r \in Pool
    /\ nreq' = nreq + 1
    /\ req' = [req EXCEPT ![w] = << r >>]
    /\ resp' = [resp EXCEPT ![w] = <<>>]
    /\ sess' = [sess EXCEPT ![w] = NoSession]
    /\ pre' = [pre EXCEPT ![w] = << [customers |-> customers, staff |-> staff,
                                     signals |-> signals, webhooks |-> webhooks,
                                     sales |-> sales] >>]
    /\ pc' = [pc EXCEPT ![w] = IF r.via = "http" THEN "validate" ELSE "auth"]
    /\ UNCHANGED << customers, staff, signals, sales, nextId, clock, dispatches,
                    posts, serial, recon, office >>

\* the worker answers: HTTP status, detail and (on 200) the response body
Answer(w, status, detail, body) ==
    /\ resp' = [resp EXCEPT ![w] = << [status |-> status, detail |-> detail,
                                      body |-> body] >>]
    /\ pc' = [pc EXCEPT ![w] = "idle"]

\* the framework builds SaleRequest from the body: the payment_methods
\* validator runs before create_sale is entered; a ValueError is a 422
ValidateSchema(w) ==
    /\ pc[w] = "validate"
    /\ IF validate_payment_methods_raises(req[w][1].total_amount, req[w][1].payment_methods)
       THEN Answer(w, 422, "Payment methods sum must equal total amount", <<>>)
       ELSE /\ pc' = [pc EXCEPT ![w] = "auth"]
            /\ UNCHANGED resp
    /\ UNCHANGED << customers, staff, signals, sales, req, sess, pre, nreq,
                    nextId, clock, dispatches, posts, serial, recon, office >>

\* the user is looked at before the agent: an active ADMIN user passes
\* whatever the agent
require_admin_or_agent_user_first(token) ==
    IF token.user # <<>> /\ token.user[1].is_active /\ token.user[1].role = "ADMIN"
    THEN "pass"
    ELSE IF token.agent # <<>>
    THEN (IF ~token.agent[1].is_active THEN "Agent is inactive" ELSE "pass")
    ELSE IF token.user # <<>> /\ ~token.user[1].is_active
         THEN "User account is inactive"
         ELSE "Admin or agent access required"

\* helpers/auth.py require_admin_or_agent: "pass", or the detail of the 403
require_admin_or_agent(token) ==
    IF token.agent # <<>>
    THEN (IF ~token.agent[1].is_active THEN "Agent is inactive" ELSE "pass")
    ELSE IF token.user # <<>> /\ ~token.user[1].is_active
         THEN "User account is inactive"
         ELSE IF token.user # <<>> /\ token.user[1].role = "ADMIN"
              THEN "pass"
              ELSE "Admin or agent access required"

\* await require_admin_or_agent(token, db_session), create_sale's first line
RequireAdminOrAgent(w) ==
    /\ pc[w] = "auth"
    /\ IF require_admin_or_agent(req[w][1].token) # "pass"
       THEN Answer(w, 403, require_admin_or_agent(req[w][1].token), <<>>)
       ELSE /\ pc' = [pc EXCEPT ![w] = "customer"]
            /\ UNCHANGED resp
    /\ UNCHANGED << customers, staff, signals, sales, req, sess, pre, nreq,
                    nextId, clock, dispatches, posts, serial, recon, office >>

\* customer = db_session.get(Customer, sale_data.customer_id)
GetCustomer(w) ==
    /\ pc[w] = "customer"
    /\ LET cid == req[w][1].customer_id IN
       IF cid \notin DOMAIN customers
       THEN /\ Answer(w, 404, "Customer not found", <<>>)
            /\ UNCHANGED sess
       ELSE /\ sess' = [sess EXCEPT
                  ![w].customer = << [id |-> cid] @@ customers[cid] >>,
                  ![w].loaded_points = << customers[cid].loyalty_points >>]
            /\ pc' = [pc EXCEPT ![w] = "staff"]
            /\ UNCHANGED resp
    /\ UNCHANGED << customers, staff, signals, sales, req, pre, nreq, nextId,
                    clock, dispatches, posts, serial, recon, office >>

\* the staff check with "not staff.is_active" left out
GetStaffNoActiveTest(w) ==
    /\ pc[w] = "staff"
    /\ LET sid == req[w][1].staff_id IN
       IF sid \notin DOMAIN staff
       THEN /\ Answer(w, 404, "Staff member not found or inactive", <<>>)
            /\ UNCHANGED sess
       ELSE /\ sess' = [sess EXCEPT ![w].staff = << [id |-> sid] @@ staff[sid] >>]
            /\ pc' = [pc EXCEPT ![w] = "payments"]
            /\ UNCHANGED resp
    /\ UNCHANGED << customers, staff, signals, sales, req, pre, nreq, nextId,
                    clock, dispatches, posts, serial, recon, office >>

\* staff = db_session.get(Staff, sale_data.staff_id); not staff or not active
GetStaff(w) ==
    /\ pc[w] = "staff"
    /\ LET sid == req[w][1].staff_id IN
       IF sid \notin DOMAIN staff \/ ~staff[sid].is_active
       THEN /\ Answer(w, 404, "Staff member not found or inactive", <<>>)
            /\ UNCHANGED sess
       ELSE /\ sess' = [sess EXCEPT ![w].staff = << [id |-> sid] @@ staff[sid] >>]
            /\ pc' = [pc EXCEPT ![w] = "payments"]
            /\ UNCHANGED resp
    /\ UNCHANGED << customers, staff, signals, sales, req, pre, nreq, nextId,
                    clock, dispatches, posts, serial, recon, office >>

\* the task create_sale hands to BackgroundTasks for a sale
TaskOf(sale) == [sale_id |-> sale.id, kind |-> "signals", phase |-> "scheduled",
                 todo |-> <<>>, loaded |-> <<>>]

\* new_sale = Sale(...), set_items, set_payment_methods (lines 79-93)
NewSale(sale_data, id, now) ==
    [id |-> id,
     customer_id |-> sale_data.customer_id,
     staff_id |-> sale_data.staff_id,
     items |-> set_items(sale_data.items),
     subtotal |-> sale_data.subtotal,
     discount_amount |-> sale_data.discount_amount,
     total_amount |-> sale_data.total_amount,
     loyalty_points_generated |-> sale_data.loyalty_points_generated,
     payment_methods |-> set_payment_methods(sale_data.payment_methods),
     created_at |-> now, updated_at |-> now]

\* the payment check run only after the sale was written and committed
CheckPaymentsAfterWrite(w) ==
    /\ pc[w] = "payments"
    /\ IF PaymentMismatch(req[w][1])
       THEN /\ Answer(w, 400, "Payment methods sum must equal total amount", <<>>)
            /\ sales' = Append(sales, NewSale(req[w][1], nextId, clock))
            /\ nextId' = nextId + 1
            /\ clock' = clock + 1
       ELSE /\ pc' = [pc EXCEPT ![w] = "flush"]
            /\ UNCHANGED << resp, sales, nextId, clock >>
    /\ UNCHANGED << customers, staff, signals, req, sess, pre, nreq,
                    dispatches, posts, serial, recon, office >>

\* total_payments = sum(...); abs(total_payments - total_amount) > 0.01
CheckPayments(w) ==
    /\ pc[w] = "payments"
    /\ IF PaymentMismatch(req[w][1])
       THEN Answer(w, 400, "Payment methods sum must equal total amount", <<>>)
       ELSE /\ pc' = [pc EXCEPT ![w] = "flush"]
            /\ UNCHANGED resp
    /\ UNCHANGED << customers, staff, signals, sales, req, sess, pre, nreq,
                    nextId, clock, dispatches, posts, serial, recon, office >>

\* flush() replaced by commit(): the Sale row is visible at once
FlushAutocommit(w) ==
    /\ pc[w] = "flush"
    /\ sess' = [sess EXCEPT ![w].new_sale = << NewSale(req[w][1], nextId, clock) >>]
    /\ sales' = Append(sales, NewSale(req[w][1], nextId, clock))
    /\ nextId' = nextId + 1
    /\ clock' = clock + 1
    /\ pc' = [pc EXCEPT ![w] = "update"]
    /\ UNCHANGED << customers, staff, signals, req, resp, pre, nreq,
                    dispatches, posts, serial, recon, office >>

\* add_task called right after the flush, ahead of the commit
FlushAndSchedule(w) ==
    /\ pc[w] = "flush"
    /\ sess' = [sess EXCEPT ![w].new_sale = << NewSale(req[w][1], nextId, clock) >>,
                            ![w].flushed = TRUE,
                            ![w].bg = Append(@, TaskOf([id |-> nextId]))]
    /\ nextId' = nextId + 1
    /\ clock' = clock + 1
    /\ pc' = [pc EXCEPT ![w] = "update"]
    /\ UNCHANGED << customers, staff, signals, sales, req, resp, pre, nreq,
                    dispatches, posts, serial, recon, office >>

\* Sale(...) is built with a fresh id; db_session.add; db_session.flush():
\* the INSERT is sent inside the open transaction
Flush(w) ==
    /\ pc[w] = "flush"
    /\ sess' = [sess EXCEPT ![w].new_sale = << NewSale(req[w][1], nextId, clock) >>,
                            ![w].flushed = TRUE]
    /\ nextId' = nextId + 1
    /\ clock' = clock + 1
    /\ pc' = [pc EXCEPT ![w] = "update"]
    /\ UNCHANGED << customers, staff, signals, sales, req, resp, pre, nreq,
                    dispatches, posts, serial, recon, office >>

\* the Customer object after lines 99-100
\* "=" written for "+="
BalanceSet(customer, sale_data, now) ==
    [customer EXCEPT !.loyalty_points = DecimalOfInt(sale_data.loyalty_points_generated),
                     !.updated_at = now]
BalanceUpdated(customer, sale_data, now) ==
    [customer EXCEPT !.loyalty_points =
                         @ + DecimalOfInt(sale_data.loyalty_points_generated),
                     !.updated_at = now]

\* customer.loyalty_points += ...; customer.updated_at = now; add(customer):
\* the loaded object changes, nothing is sent to the store yet
UpdateBalance(w) ==
    /\ pc[w] = "update"
    /\ sess' = [sess EXCEPT ![w].customer =
                    << BalanceUpdated(sess[w].customer[1], req[w][1], clock) >>]
    /\ clock' = clock + 1
    /\ pc' = [pc EXCEPT ![w] = "commit"]
    /\ UNCHANGED << customers, staff, signals, sales, req, resp, pre, nreq,
                    nextId, dispatches, posts, serial, recon, office >>

\* the UPDATE the unit of work sends for the Customer object: it sets the
\* columns whose value differs from the loaded one, to the object's values
CustomerRowAfterUpdate(row, obj, loaded_points) ==
    [row EXCEPT !.updated_at = obj.updated_at,
                !.loyalty_points = IF obj.loyalty_points # loaded_points
                                   THEN obj.loyalty_points ELSE @]

\* db_session.commit(): the Customer UPDATE is flushed and the transaction
\* (Sale INSERT and Customer UPDATE) becomes visible at once
Commit(w) ==
    /\ pc[w] = "commit"
    /\ LET obj == sess[w].customer[1] IN
       customers' = [customers EXCEPT ![obj.id] =
                        CustomerRowAfterUpdate(@, obj, sess[w].loaded_points[1])]
    /\ sales' = IF sess[w].flushed THEN Append(sales, sess[w].new_sale[1]) ELSE sales
    /\ sess' = [sess EXCEPT ![w].flushed = FALSE]
    /\ pc' = [pc EXCEPT ![w] = "refresh"]
    /\ UNCHANGED << staff, signals, req, resp, pre, nreq, nextId, clock,
                    dispatches, posts, serial, recon, office >>

\* the committed Sale row with this id
SaleRow(id) == CHOOSE s \in { sales[i] : i \in 1..Len(sales) } : s.id = id

SaleIds == { sales[i].id : i \in 1..Len(sales) }

\* db_session.refresh(new_sale); db_session.refresh(customer): both objects
\* are read again from the store
Refresh(w) ==
    /\ pc[w] = "refresh"
    /\ sess[w].new_sale[1].id \in SaleIds
    /\ sess' = [sess EXCEPT
           ![w].new_sale = << SaleRow(sess[w].new_sale[1].id) >>,
           ![w].customer = << [id |-> sess[w].customer[1].id]
                               @@ customers[sess[w].customer[1].id] >>,
           ![w].loaded_points = << customers[sess[w].customer[1].id].loyalty_points >>]
    /\ pc' = [pc EXCEPT ![w] = "schedule"]
    /\ UNCHANGED << customers, staff, signals, sales, req, resp, pre, nreq,
                    nextId, clock, dispatches, posts, serial, recon, office >>

\* "await notify_sale_to_signals(...)" written for add_task: the handler
\* posts to the active signals itself and goes on when the POSTs are over
AddTaskAwaited(w) ==
    /\ pc[w] = "schedule"
    /\ LET id == sess[w].new_sale[1].id
           targets == { g \in DOMAIN signals : signals[g].is_active }
           q == CHOOSE f \in [1..Cardinality(targets) -> targets] :
                    \A g \in targets : \E i \in DOMAIN f : f[i] = g
       IN  /\ attempts' = attempts \o
                 [i \in 1..Len(q) |-> [sale_id |-> id, target |-> q[i],
                                       outcome |-> "timeout"]]
           /\ posts' = [k \in { << id, g >> : g \in targets } |-> 1] @@ posts
    /\ pc' = [pc EXCEPT ![w] = "respond"]
    /\ UNCHANGED << customers, staff, signals, sales, req, sess, resp, pre, nreq,
                    nextId, clock, dispatches, serial, recon,
                    products, webhooks, ops, last, mode >>

\* background_tasks.add_task(notify_sale_to_signals, new_sale, customer, ...)
AddTask(w) ==
    /\ pc[w] = "schedule"
    /\ sess' = [sess EXCEPT ![w].bg = Append(@, TaskOf(sess[w].new_sale[1]))]
    /\ pc' = [pc EXCEPT ![w] = "respond"]
    /\ UNCHANGED << customers, staff, signals, sales, req, resp, pre, nreq,
                    nextId, clock, dispatches, posts, serial, recon, office >>

\* SaleResponse(...) built from the refreshed objects (lines 111-140)
SaleResponseOf(sale, customer, staffrow) ==
    [id |-> sale.id, customer_id |-> sale.customer_id, staff_id |-> sale.staff_id,
     customer |-> customer, staff |-> staffrow,
     items |-> get_items(sale.items),
     subtotal |-> sale.subtotal, discount_amount |-> sale.discount_amount,
     total_amount |-> sale.total_amount,
     loyalty_points_generated |-> sale.loyalty_points_generated,
     payment_methods |-> get_payment_methods(sale.payment_methods),
     created_at |-> sale.created_at, updated_at |-> sale.updated_at]

\* return SaleResponse(...): the handler returns, the framework sends the 200
\* and hands the request's background tasks to the event loop.  The Staff
\* object was expired by the commit and is read again here.
Respond(w) ==
    /\ pc[w] = "respond"
    /\ Answer(w, 200, "OK",
              << SaleResponseOf(sess[w].new_sale[1], sess[w].customer[1],
                                [id |-> sess[w].staff[1].id]
                                    @@ staff[sess[w].staff[1].id]) >>)
    /\ dispatches' = dispatches \cup { sess[w].bg[i] : i \in 1..Len(sess[w].bg) }
    /\ UNCHANGED << customers, staff, signals, sales, req, sess, pre, nreq,
                    nextId, clock, posts, serial, recon, office >>

\* the lines inside create_sale's try block
GuardedSteps == {"flush", "update", "commit", "refresh", "schedule", "respond"}

\* the step the worker is at raises; except Exception: db_session.rollback()
\* and HTTPException(500).  The rollback discards what the open transaction
\* holds; the framework answers an HTTPException without running the
\* request's background tasks.
Raise(w) ==
    /\ pc[w] \in GuardedSteps
    /\ sess' = [sess EXCEPT ![w].flushed = FALSE]
    /\ Answer(w, 500, pc[w], <<>>)
    /\ UNCHANGED << customers, staff, signals, sales, req, pre, nreq, nextId,
                    clock, dispatches, posts, serial, recon, office >>

(* ------------------------ notification dispatcher ---------------------- *)

ActiveSignals == { g \in SignalIds : g \in DOMAIN signals /\ signals[g].is_active }

\* select(SaleWebhook).where(SaleWebhook.is_active == True)
ActiveWebhooks == { h \in WebhookIds : h \in DOMAIN webhooks /\ webhooks[h].is_active }

\* the sequences that list every element of S once
Orderings(S) ==
    { q \in [1..Cardinality(S) -> S] : \A x \in S : \E i \in DOMAIN q : q[i] = x }

PostCount(sale_id, g) ==
    IF << sale_id, g >> \in DOMAIN posts THEN posts[<< sale_id, g >>] ELSE 0

\* the dispatch of the sale with this id, among those handed to the loop
DispatchOf(sale_id) ==
    CHOOSE d \in dispatches : d.sale_id = sale_id /\ d.kind = "signals"

\* a background task runs when the event loop gives it the turn: in one
\* process, never inside the handler, which has no suspension point
LoopTurn == serial => pc["w1"] = "idle"

\* notify_sale_to_signals starts: it selects the active signals (a SELECT
\* with no ORDER BY, so in any order) and returns when there is none
notify_sale_to_signals(sale_id) ==
    /\ LoopTurn
    /\ \E d \in dispatches : d.sale_id = sale_id /\ d.kind = "signals"
    /\ LET d == DispatchOf(sale_id) IN
       /\ d.phase = "scheduled"
       /\ \E q \in Orderings(ActiveSignals) :
            dispatches' = (dispatches \ {d}) \cup
               { [d EXCEPT !.phase = IF q = <<>> THEN "done" ELSE "posting",
                           !.todo = q, !.loaded = q] }
    /\ UNCHANGED << customers, staff, signals, sales, pc, req, sess, resp, pre,
                    nreq, nextId, clock, posts, serial, recon, office >>

PostOutcomes == {"2xx", "non2xx", "timeout", "error"}

\* the dispatch record after the attempt on the head of its list
AfterAttempt(d) ==
    [d EXCEPT !.todo = Tail(@),
              !.phase = IF Tail(d.todo) = <<>> THEN "done" ELSE "posting"]

\* notify_single_signal on the next target: one POST, whose outcome is only
\* logged; the loop goes on to the target after it
notify_single_signal(sale_id, outcome) ==
    /\ LoopTurn
    /\ \E d \in dispatches : d.sale_id = sale_id /\ d.kind = "signals"
    /\ outcome \in PostOutcomes
    /\ LET d == DispatchOf(sale_id) IN
       /\ d.phase = "posting"
       /\ posts' = (<< sale_id, Head(d.todo) >> :>
                        (PostCount(sale_id, Head(d.todo)) + 1)) @@ posts
       /\ attempts' = Append(attempts, [sale_id |-> sale_id, target |-> Head(d.todo),
                                        outcome |-> outcome])
       /\ dispatches' = (dispatches \ {d}) \cup { AfterAttempt(d) }
    /\ UNCHANGED << customers, staff, signals, sales, pc, req, sess, resp, pre,
                    nreq, nextId, clock, serial, recon,
                    products, webhooks, ops, last, mode >>

\* notify_sale_to_webhooks is called with a committed sale
WebhookTaskOf(sale) == [sale_id |-> sale.id, kind |-> "webhooks", phase |-> "scheduled",
                        todo |-> <<>>, loaded |-> <<>>]

\* the call of notify_sale_to_webhooks for the sale with this id
WebhookDispatchOf(sale_id) ==
    CHOOSE d \in dispatches : d.sale_id = sale_id /\ d.kind = "webhooks"

\* the targets are those that were active when the sale's request began,
\* not those active now
notify_sale_to_webhooks_at_commit(sale_id) ==
    /\ LoopTurn
    /\ \E d \in dispatches : d.sale_id = sale_id /\ d.kind = "webhooks"
    /\ LET d == WebhookDispatchOf(sale_id)
           before == pre["w1"][1].webhooks
       IN
       /\ d.phase = "scheduled"
       /\ \E q \in Orderings({ h \in DOMAIN before : before[h].is_active }) :
            dispatches' = (dispatches \ {d}) \cup
               { [d EXCEPT !.phase = IF q = <<>> THEN "done" ELSE "posting",
                           !.todo = q, !.loaded = q] }
    /\ UNCHANGED << customers, staff, signals, sales, pc, req, sess, resp, pre,
                    nreq, nextId, clock, posts, serial, recon, office >>

\* notify_sale_to_webhooks up to its loop: webhooks = exec(select ... where
\* is_active == True).all(), in the store's order; "if not webhooks: return"
notify_sale_to_webhooks(sale_id) ==
    /\ LoopTurn
    /\ \E d \in dispatches : d.sale_id = sale_id /\ d.kind = "webhooks"
    /\ LET d == WebhookDispatchOf(sale_id) IN
       /\ d.phase = "scheduled"
       /\ \E q \in Orderings(ActiveWebhooks) :
            dispatches' = (dispatches \ {d}) \cup
               { [d EXCEPT !.phase = IF q = <<>> THEN "done" ELSE "posting",
                           !.todo = q, !.loaded = q] }
    /\ UNCHANGED << customers, staff, signals, sales, pc, req, sess, resp, pre,
                    nreq, nextId, clock, posts, serial, recon, office >>

\* what one notify_single_webhook call can meet: the four outcomes of the
\* POST, and "exception": get_auth_config or apply_webhook_auth raises
\* before the POST is issued
WebhookOutcomes == PostOutcomes \cup {"exception"}

\* posts after one attempt on webhook h: client.post was reached unless
\* building the headers raised
PostsAfter(sale_id, h, outcome) ==
    IF outcome = "exception" THEN posts
    ELSE (<< sale_id, h >> :> (PostCount(sale_id, h) + 1)) @@ posts

\* an outcome other than 2xx propagates out of the loop: the targets after
\* it are dropped
notify_single_webhook_propagates(sale_id, outcome) ==
    /\ LoopTurn
    /\ \E d \in dispatches : d.sale_id = sale_id /\ d.kind = "webhooks"
    /\ outcome \in WebhookOutcomes
    /\ LET d == WebhookDispatchOf(sale_id) IN
       /\ d.phase = "posting"
       /\ posts' = PostsAfter(sale_id, Head(d.todo), outcome)
       /\ attempts' = Append(attempts, [sale_id |-> sale_id, target |-> Head(d.todo),
                                        outcome |-> outcome])
       /\ dispatches' = (dispatches \ {d}) \cup
             { IF outcome = "2xx" THEN AfterAttempt(d)
               ELSE [d EXCEPT !.todo = <<>>, !.phase = "done"] }
    /\ UNCHANGED << customers, staff, signals, sales, pc, req, sess, resp, pre,
                    nreq, nextId, clock, serial, recon,
                    products, webhooks, ops, last, mode >>

\* a first attempt that is not a 2xx is made once more
notify_single_webhook_retries(sale_id, outcome) ==
    /\ LoopTurn
    /\ \E d \in dispatches : d.sale_id = sale_id /\ d.kind = "webhooks"
    /\ outcome \in WebhookOutcomes
    /\ LET d == WebhookDispatchOf(sale_id) IN
       /\ d.phase = "posting"
       /\ posts' = PostsAfter(sale_id, Head(d.todo), outcome)
       /\ attempts' = Append(attempts, [sale_id |-> sale_id, target |-> Head(d.todo),
                                        outcome |-> outcome])
       /\ dispatches' = (dispatches \ {d}) \cup
             { IF outcome # "2xx" /\ PostCount(sale_id, Head(d.todo)) = 0
               THEN d ELSE AfterAttempt(d) }
    /\ UNCHANGED << customers, staff, signals, sales, pc, req, sess, resp, pre,
                    nreq, nextId, clock, serial, recon,
                    products, webhooks, ops, last, mode >>

\* a webhook that does not answer 2xx is switched off
notify_single_webhook_deactivates(sale_id, outcome) ==
    /\ LoopTurn
    /\ \E d \in dispatches : d.sale_id = sale_id /\ d.kind = "webhooks"
    /\ outcome \in WebhookOutcomes
    /\ LET d == WebhookDispatchOf(sale_id) IN
       /\ d.phase = "posting"
       /\ posts' = PostsAfter(sale_id, Head(d.todo), outcome)
       /\ attempts' = Append(attempts, [sale_id |-> sale_id, target |-> Head(d.todo),
                                        outcome |-> outcome])
       /\ dispatches' = (dispatches \ {d}) \cup { AfterAttempt(d) }
       /\ webhooks' = IF outcome = "2xx" THEN webhooks
                      ELSE [webhooks EXCEPT ![Head(d.todo)].is_active = FALSE]
    /\ UNCHANGED << customers, staff, signals, sales, pc, req, sess, resp, pre,
                    nreq, nextId, clock, serial, recon,
                    products, ops, last, mode >>

\* after a timeout the loop gives up on the target after it as well
notify_single_webhook_skips(sale_id, outcome) ==
    /\ LoopTurn
    /\ \E d \in dispatches : d.sale_id = sale_id /\ d.kind = "webhooks"
    /\ outcome \in WebhookOutcomes
    /\ LET d == WebhookDispatchOf(sale_id) IN
       /\ d.phase = "posting"
       /\ posts' = PostsAfter(sale_id, Head(d.todo), outcome)
       /\ attempts' = Append(attempts, [sale_id |-> sale_id, target |-> Head(d.todo),
                                        outcome |-> outcome])
       /\ dispatches' = (dispatches \ {d}) \cup
             { IF outcome = "timeout" /\ Len(d.todo) > 1
               THEN AfterAttempt(AfterAttempt(d)) ELSE AfterAttempt(d) }
    /\ UNCHANGED << customers, staff, signals, sales, pc, req, sess, resp, pre,
                    nreq, nextId, clock, serial, recon,
                    products, webhooks, ops, last, mode >>

\* one turn of "for webhook in webhooks: await notify_single_webhook(...)":
\* whatever happens inside is caught and logged, and the loop goes on
notify_single_webhook(sale_id, outcome) ==
    /\ LoopTurn
    /\ \E d \in dispatches : d.sale_id = sale_id /\ d.kind = "webhooks"
    /\ outcome \in WebhookOutcomes
    /\ LET d == WebhookDispatchOf(sale_id) IN
       /\ d.phase = "posting"
       /\ posts' = PostsAfter(sale_id, Head(d.todo), outcome)
       /\ attempts' = Append(attempts, [sale_id |-> sale_id, target |-> Head(d.todo),
                                        outcome |-> outcome])
       /\ dispatches' = (dispatches \ {d}) \cup { AfterAttempt(d) }
    /\ UNCHANGED << customers, staff, signals, sales, pc, req, sess, resp, pre,
                    nreq, nextId, clock, serial, recon,
                    products, webhooks, ops, last, mode >>

\* the ids id_generator can have handed out
IdRange == 1..MaxRequests

Next ==
    \/ \E w \in Workers, r \in Requests : Begin(w, r)
    \/ \E w \in Workers : ValidateSchema(w)
    \/ \E w \in Workers : RequireAdminOrAgent(w)
    \/ \E w \in Workers : GetCustomer(w)
    \/ \E w \in Workers : GetStaff(w)
    \/ \E w \in Workers : CheckPayments(w)
    \/ \E w \in Workers : Flush(w)
    \/ \E w \in Workers : UpdateBalance(w)
    \/ \E w \in Workers : Commit(w)
    \/ \E w \in Workers : Refresh(w)
    \/ \E w \in Workers : AddTask(w)
    \/ \E w \in Workers : Respond(w)
    \/ \E w \in Workers : Raise(w)
    \/ \E id \in IdRange : notify_sale_to_signals(id)
    \/ \E id \in IdRange, o \in PostOutcomes : notify_single_signal(id, o)

\* one server process: requests run one after the other
Spec == Init /\ [][Next]_vars

\* two server processes on the one store, both signals active
InitConc ==
    /\ InitStore
    /\ signals = [g \in SignalIds |-> [is_active |-> TRUE]]
    /\ webhooks = [h \in WebhookIds |-> [is_active |-> h = "h1"]]
    /\ InitWorkers
    /\ serial = FALSE
    /\ mode = "sales"
    /\ recon = NoRecon

SpecConc == InitConc /\ [][Next]_vars

(* ----------------- payment reconciliation on its own ------------------- *)

ReconTotals == {0, 18000}

ReconAmounts == {-10, 0, 10, 11, 8995, 9000, 9005, 17989, 17990, 18000, 18010, 18011}

\* the allocation sequences of at most n entries
AllocSeqs(n) ==
    UNION { [1..k -> { Cash(a) : a \in ReconAmounts }] : k \in 0..n }

InitRecon ==
    /\ InitStore
    /\ signals = [g \in SignalIds |-> [is_active |-> TRUE]]
    /\ webhooks = [h \in WebhookIds |-> [is_active |-> h = "h1"]]
    /\ InitWorkers
    /\ serial = TRUE
    /\ mode = "sales"
    /\ recon \in { [total_amount |-> t, payment_methods |-> p,
                    schema |-> "none", handler |-> "none"] :
                   t \in ReconTotals, p \in AllocSeqs(MaxAllocs) }

\* SaleRequest.validate_payment_methods applied to the input
ReconSchema ==
    /\ recon.schema = "none"
    /\ recon' = [recon EXCEPT !.schema =
                    IF validate_payment_methods_raises(recon.total_amount, recon.payment_methods)
                    THEN "rejected" ELSE "accepted"]
    /\ UNCHANGED << customers, staff, signals, sales, pc, req, sess, resp, pre,
                    nreq, nextId, clock, dispatches, posts, serial, office >>

\* create_sale's payment check (lines 65-71) applied to the input
ReconHandler ==
    /\ recon.handler = "none"
    /\ recon' = [recon EXCEPT !.handler =
                    IF PaymentMismatch(recon) THEN "rejected" ELSE "accepted"]
    /\ UNCHANGED << customers, staff, signals, sales, pc, req, sess, resp, pre,
                    nreq, nextId, clock, dispatches, posts, serial, office >>

NextRecon == ReconSchema \/ ReconHandler

SpecRecon == InitRecon /\ [][NextRecon]_vars

(* ------------- notify_sale_to_webhooks called on its own --------------- *)

\* the sale the call is made for: committed by an earlier create_sale
CommittedSale ==
    NewSale(SaleRequestOf("http", AdminToken, "c1", "s1", << Cash(18000) >>, 18), 1, 1)

\* the SaleWebhook tables over WebhookIds: each id registered or not, each
\* registered webhook active or not
WebhookTables ==
    UNION { [H -> { [is_active |-> a] : a \in BOOLEAN }] : H \in SUBSET WebhookIds }

\* the store after that create_sale, and notify_sale_to_webhooks called
InitDispatch ==
    /\ customers = [c \in {"c1", "c2"} |->
                      [phone |-> IF c = "c1" THEN "555-0001" ELSE "555-0002",
                       name |-> IF c = "c1" THEN "John Doe" ELSE "Jane Roe",
                       loyalty_points |-> IF c = "c1" THEN 68000 ELSE 0,
                       is_active |-> TRUE, updated_at |-> IF c = "c1" THEN 2 ELSE 0]]
    /\ staff = [s \in {"s1", "s2"} |-> [name |-> s, is_active |-> s = "s1", updated_at |-> 0]]
    /\ products = [p \in {"p1"} |->
                     [name |-> "Test Product", description |-> << "Sold by the piece" >>,
                      price |-> 18000, is_active |-> TRUE, updated_at |-> 0]]
    /\ sales = << CommittedSale >>
    /\ signals = [g \in SignalIds |-> [is_active |-> g = "g1"]]
    /\ webhooks \in WebhookTables
    /\ pc = [w \in Workers |-> "idle"]
    /\ req = [w \in Workers |-> <<>>]
    /\ sess = [w \in Workers |-> NoSession]
    /\ resp = [w \in Workers |-> <<>>]
    /\ pre = [w \in Workers |-> <<>>]
    /\ nreq = 1
    /\ nextId = 2
    /\ clock = 3
    /\ dispatches = { WebhookTaskOf(CommittedSale) }
    /\ posts = << >>
    /\ attempts = << >>
    /\ ops = 0
    /\ last = << >>
    /\ serial = TRUE
    /\ mode = "sales"
    /\ recon = NoRecon

NextDispatch ==
    \/ \E id \in IdRange : notify_sale_to_webhooks(id)
    \/ \E id \in IdRange, o \in WebhookOutcomes : notify_single_webhook(id, o)

SpecDispatch == InitDispatch /\ [][NextDispatch]_vars

\* SpecDispatch with the event loop running the call to its end: every POST
\* is bounded by the client's timeout, so every await of the loop returns
SpecDispatchFair == InitDispatch /\ [][NextDispatch]_vars /\ WF_vars(NextDispatch)

(* --------------------- create_sale under fair scheduling --------------- *)

\* worker w runs the line of create_sale it is at, which does not raise
NextLine(w) ==
    \/ ValidateSchema(w) \/ RequireAdminOrAgent(w) \/ GetCustomer(w)
    \/ GetStaff(w) \/ CheckPayments(w) \/ Flush(w) \/ UpdateBalance(w)
    \/ Commit(w) \/ Refresh(w) \/ AddTask(w) \/ Respond(w)

\* a handler that was entered runs its next line
HandlerStep ==
    \E w \in Workers :
        \/ ValidateSchema(w) \/ RequireAdminOrAgent(w) \/ GetCustomer(w)
        \/ GetStaff(w) \/ CheckPayments(w) \/ Flush(w) \/ UpdateBalance(w)
        \/ Commit(w) \/ Refresh(w) \/ AddTask(w) \/ Respond(w) \/ Raise(w)

\* the event loop runs a background task that is ready
DispatchStep ==
    \/ \E id \in IdRange : notify_sale_to_signals(id)
    \/ \E id \in IdRange, o \in PostOutcomes : notify_single_signal(id, o)

\* Spec, with every entered handler running to its end and every background
\* task handed to the event loop being run
SpecFair == Init /\ [][Next]_vars /\ WF_vars(HandlerStep) /\ WF_vars(DispatchStep)

(* --------------------- the other operations of the API ----------------- *)

\* the callers of the back-office operations
OfficeTokens == {AdminToken, MemberToken}

\* "text LIKE %q%" over the strings of the model
Like(q, text) ==
    << q, text >> \in
        { << "555", "555-0001" >>, << "555", "555-0002" >>, << "555", "555-0003" >>,
          << "0001", "555-0001" >>,
          << "Product", "Test Product" >>, << "Product", "Renamed Product" >>,
          << "Product", "New Product" >>, << "piece", "Sold by the piece" >> }

\* a handler other than create_sale gets the turn: in one process it runs
\* from its first line to its return while no other handler is running
OfficeTurn ==
    /\ mode \in {"office", "gate", "ledger"}
    /\ LoopTurn
    /\ ops < MaxOps
    \* with many kinds of call, the calls of a behaviour are counted together
    /\ mode \in {"gate", "ledger"} => nreq + ops < MaxOps

\* the handler answers: status, and the body or the detail of the error
Reply(op, arg, status, body) ==
    /\ last' = << [op |-> op, arg |-> arg, status |-> status, body |-> body] >>
    /\ ops' = ops + 1

\* await require_admin_or_agent(token, db_session) raised its 403: the
\* handler has read nothing of the request yet
Forbidden(op, token) ==
    Reply(op, [token |-> token], 403, << require_admin_or_agent(token) >>)

\* what an operation on another table leaves alone on create_sale's side
handlers == << pc, req, sess, resp, pre, nreq, nextId, dispatches, posts,
               attempts, serial, recon, mode >>

\* CustomerResponse(...) of a row
CustomerResponseOf(id, row) == [id |-> id] @@ row

\* ids id_generator('customer') has not handed out yet
FreshCustomerIds == {"c3"}

\* select(Customer).where(phone LIKE ..., is_active == True)
search_customers(token, phone) ==
    /\ OfficeTurn
    /\ LET arg == [token |-> token, phone |-> phone]
           found == { c \in DOMAIN customers :
                        Like(phone, customers[c].phone) /\ customers[c].is_active }
       IN  IF require_admin_or_agent(token) # "pass"
           THEN Forbidden("search_customers", token)
           ELSE Reply("search_customers", arg, 200,
                      << { CustomerResponseOf(c, customers[c]) : c \in found } >>)
    /\ UNCHANGED << customers, products, staff, signals, webhooks, sales, clock,
                    handlers >>

\* the existing customer is returned with the request's name written into it
create_customer_upserts(token, phone, name) ==
    /\ OfficeTurn
    /\ LET arg == [token |-> token, phone |-> phone, name |-> name]
           existing == { c \in DOMAIN customers : customers[c].phone = phone }
       IN  IF require_admin_or_agent(token) # "pass"
           THEN /\ Forbidden("create_customer", token)
                /\ UNCHANGED << customers, clock >>
           ELSE IF existing # {}
           THEN LET c == CHOOSE x \in existing : TRUE IN
                /\ customers' = [customers EXCEPT ![c].name = name]
                /\ Reply("create_customer", arg, 200,
                         << CustomerResponseOf(c, customers'[c]) >>)
                /\ UNCHANGED clock
           ELSE \E id \in FreshCustomerIds \ DOMAIN customers :
                /\ customers' = customers @@
                      (id :> [phone |-> phone, name |-> name, loyalty_points |-> 0,
                              is_active |-> TRUE, updated_at |-> clock])
                /\ clock' = clock + 1
                /\ Reply("create_customer", arg, 200,
                         << CustomerResponseOf(id, customers'[id]) >>)
    /\ UNCHANGED << products, staff, signals, webhooks, sales, handlers >>

\* create_customer: the customer with this phone if there is one, else a new
\* row with loyalty_points 0, added, committed and read back
create_customer(token, phone, name) ==
    /\ OfficeTurn
    /\ LET arg == [token |-> token, phone |-> phone, name |-> name]
           existing == { c \in DOMAIN customers : customers[c].phone = phone }
       IN  IF require_admin_or_agent(token) # "pass"
           THEN /\ Forbidden("create_customer", token)
                /\ UNCHANGED << customers, clock >>
           ELSE IF existing # {}
           THEN LET c == CHOOSE x \in existing : TRUE IN
                /\ Reply("create_customer", arg, 200,
                         << CustomerResponseOf(c, customers[c]) >>)
                /\ UNCHANGED << customers, clock >>
           ELSE \E id \in FreshCustomerIds \ DOMAIN customers :
                /\ customers' = customers @@
                      (id :> [phone |-> phone, name |-> name, loyalty_points |-> 0,
                              is_active |-> TRUE, updated_at |-> clock])
                /\ clock' = clock + 1
                /\ Reply("create_customer", arg, 200,
                         << CustomerResponseOf(id, customers'[id]) >>)
    /\ UNCHANGED << products, staff, signals, webhooks, sales, handlers >>

\* update_customer: the name only; the request's phone is not read
update_customer(token, customer_id, name) ==
    /\ OfficeTurn
    /\ LET arg == [token |-> token, customer_id |-> customer_id, name |-> name] IN
       IF require_admin_or_agent(token) # "pass"
       THEN /\ Forbidden("update_customer", token)
            /\ UNCHANGED << customers, clock >>
       ELSE IF customer_id \notin DOMAIN customers
       THEN /\ Reply("update_customer", arg, 404, << "Customer not found" >>)
            /\ UNCHANGED << customers, clock >>
       ELSE /\ customers' = [customers EXCEPT ![customer_id].name = name,
                                              ![customer_id].updated_at = clock]
            /\ clock' = clock + 1
            /\ Reply("update_customer", arg, 200,
                     << CustomerResponseOf(customer_id, customers'[customer_id]) >>)
    /\ UNCHANGED << products, staff, signals, webhooks, sales, handlers >>

\* update_customer_wallet: loyalty_points is set to the request's value
update_customer_wallet(token, customer_id, loyalty_points) ==
    /\ OfficeTurn
    /\ LET arg == [token |-> token, customer_id |-> customer_id, loyalty_points |-> loyalty_points] IN
       IF require_admin_or_agent(token) # "pass"
       THEN /\ Forbidden("update_customer_wallet", token)
            /\ UNCHANGED << customers, clock >>
       ELSE IF customer_id \notin DOMAIN customers
       THEN /\ Reply("update_customer_wallet", arg, 404, << "Customer not found" >>)
            /\ UNCHANGED << customers, clock >>
       ELSE /\ customers' = [customers EXCEPT
                                ![customer_id].loyalty_points = loyalty_points,
                                ![customer_id].updated_at = clock]
            /\ clock' = clock + 1
            /\ Reply("update_customer_wallet", arg, 200,
                     << CustomerResponseOf(customer_id, customers'[customer_id]) >>)
    /\ UNCHANGED << products, staff, signals, webhooks, sales, handlers >>

RECURSIVE NewestFirst(_)
\* the Sale rows of a set ordered by created_at, newest first
NewestFirst(S) ==
    IF S = {} THEN <<>>
    ELSE LET newest == CHOOSE x \in S : \A y \in S : y.created_at <= x.created_at
         IN  << newest >> \o NewestFirst(S \ {newest})

\* the SaleResponse get_sale and list_sales build for a Sale row
SaleProjection(sale) ==
    SaleResponseOf(sale,
                   IF sale.customer_id \in DOMAIN customers
                   THEN [id |-> sale.customer_id] @@ customers[sale.customer_id]
                   ELSE <<>>,
                   IF sale.staff_id \in DOMAIN staff
                   THEN [id |-> sale.staff_id] @@ staff[sale.staff_id]
                   ELSE <<>>)

\* page numbers and page sizes asked for
Pages == {1, 2}
PageSizes == {1}

\* "offset = page * page_size" written for "(page - 1) * page_size"
list_sales_skips_a_page(token, page, page_size) ==
    /\ OfficeTurn
    /\ LET arg == [token |-> token, page |-> page, page_size |-> page_size]
           offset == page * page_size
           joined == { sales[i] : i \in { j \in 1..Len(sales) :
                          /\ sales[j].customer_id \in DOMAIN customers
                          /\ sales[j].staff_id \in DOMAIN staff } }
           results == NewestFirst(joined)
           upto == IF offset + page_size < Len(results)
                   THEN offset + page_size ELSE Len(results)
           rows == SubSeq(results, offset + 1, upto)
       IN  IF require_admin_or_agent(token) # "pass"
           THEN Forbidden("list_sales", token)
           ELSE Reply("list_sales", arg, 200,
                      << [sales |-> [i \in 1..Len(rows) |-> SaleProjection(rows[i])],
                          total |-> Len(sales), page |-> page,
                          page_size |-> page_size] >>)
    /\ UNCHANGED << customers, products, staff, signals, webhooks, sales, clock,
                    handlers >>

\* list_sales: the count of all sales, and the page of the sales joined
\* with their customer and staff rows, newest first
list_sales(token, page, page_size) ==
    /\ OfficeTurn
    /\ LET arg == [token |-> token, page |-> page, page_size |-> page_size]
           offset == (page - 1) * page_size
           joined == { sales[i] : i \in { j \in 1..Len(sales) :
                          /\ sales[j].customer_id \in DOMAIN customers
                          /\ sales[j].staff_id \in DOMAIN staff } }
           results == NewestFirst(joined)
           upto == IF offset + page_size < Len(results)
                   THEN offset + page_size ELSE Len(results)
           rows == SubSeq(results, offset + 1, upto)
       IN  IF require_admin_or_agent(token) # "pass"
           THEN Forbidden("list_sales", token)
           ELSE Reply("list_sales", arg, 200,
                      << [sales |-> [i \in 1..Len(rows) |-> SaleProjection(rows[i])],
                          total |-> Len(sales), page |-> page,
                          page_size |-> page_size] >>)
    /\ UNCHANGED << customers, products, staff, signals, webhooks, sales, clock,
                    handlers >>

\* get_sale: the Sale row by id, 404 when there is none
get_sale(token, sale_id) ==
    /\ OfficeTurn
    /\ LET arg == [token |-> token, sale_id |-> sale_id] IN
       IF require_admin_or_agent(token) # "pass"
       THEN Forbidden("get_sale", token)
       ELSE IF sale_id \notin SaleIds
       THEN Reply("get_sale", arg, 404, << "Sale not found" >>)
       ELSE Reply("get_sale", arg, 200, << SaleProjection(SaleRow(sale_id)) >>)
    /\ UNCHANGED << customers, products, staff, signals, webhooks, sales, clock,
                    handlers >>

\* get_customer_sales: SaleResponse(...) is built without staff_id, a
\* required field, so building the first row raises a ValidationError that
\* nothing catches: the framework answers 500
get_customer_sales(token, customer_id) ==
    /\ OfficeTurn
    /\ LET arg == [token |-> token, customer_id |-> customer_id]
           rows == { sales[i] : i \in { j \in 1..Len(sales) :
                                          sales[j].customer_id = customer_id } }
       IN  IF require_admin_or_agent(token) # "pass"
           THEN Forbidden("get_customer_sales", token)
           ELSE IF customer_id \notin DOMAIN customers
           THEN Reply("get_customer_sales", arg, 404, << "Customer not found" >>)
           ELSE IF rows # {}
           THEN Reply("get_customer_sales", arg, 500, << "Internal Server Error" >>)
           ELSE Reply("get_customer_sales", arg, 200, << <<>> >>)
    /\ UNCHANGED << customers, products, staff, signals, webhooks, sales, clock,
                    handlers >>

\* ProductResponse(...) of a row
ProductResponseOf(id, row) == [id |-> id] @@ row

\* ids id_generator('product') has not handed out yet
FreshProductIds == {"p2"}

\* the ProductRequest bodies sent: name and price are required, description
\* is optional
ProductInputs ==
    { [name |-> "Renamed Product", description |-> <<>>, price |-> 25000] }

\* list_products: select(Product).where(is_active == True)
list_products(token) ==
    /\ OfficeTurn
    /\ LET arg == [token |-> token, all |-> TRUE]
           found == { p \in DOMAIN products : products[p].is_active }
       IN  IF require_admin_or_agent(token) # "pass"
           THEN Forbidden("list_products", token)
           ELSE Reply("list_products", arg, 200,
                      << { ProductResponseOf(p, products[p]) : p \in found } >>)
    /\ UNCHANGED << customers, products, staff, signals, webhooks, sales, clock,
                    handlers >>

\* search_products: (name LIKE %q% or description LIKE %q%) and is_active;
\* a NULL description matches nothing
search_products(token, q) ==
    /\ OfficeTurn
    /\ LET arg == [token |-> token, q |-> q]
           found == { p \in DOMAIN products :
                        /\ \/ Like(q, products[p].name)
                           \/ \E i \in DOMAIN products[p].description :
                                 Like(q, products[p].description[i])
                        /\ products[p].is_active }
       IN  IF require_admin_or_agent(token) # "pass"
           THEN Forbidden("search_products", token)
           ELSE Reply("search_products", arg, 200,
                      << { ProductResponseOf(p, products[p]) : p \in found } >>)
    /\ UNCHANGED << customers, products, staff, signals, webhooks, sales, clock,
                    handlers >>

\* create_product: a new active row, added, committed and read back
create_product(token, product_data) ==
    /\ OfficeTurn
    /\ IF require_admin_or_agent(token) # "pass"
       THEN /\ Forbidden("create_product", token)
            /\ UNCHANGED << products, clock >>
       ELSE \E id \in FreshProductIds \ DOMAIN products :
            /\ products' = products @@
                  (id :> [name |-> product_data.name,
                          description |-> product_data.description,
                          price |-> product_data.price,
                          is_active |-> TRUE, updated_at |-> clock])
            /\ clock' = clock + 1
            /\ Reply("create_product", [token |-> token] @@ product_data, 200,
                     << ProductResponseOf(id, products'[id]) >>)
    /\ UNCHANGED << customers, staff, signals, webhooks, sales, handlers >>

\* the row update_product leaves: the request's fields that are not None
ProductUpdated(row, product_data, now) ==
    [row EXCEPT !.name = product_data.name,
                !.description = IF product_data.description # <<>>
                                THEN product_data.description ELSE @,
                !.price = product_data.price,
                !.updated_at = now]

\* an update switches the product on again
update_product_reactivates(token, product_id, product_data) ==
    /\ OfficeTurn
    /\ LET arg == [token |-> token, product_id |-> product_id, product_data |-> product_data] IN
       IF require_admin_or_agent(token) # "pass"
       THEN /\ Forbidden("update_product", token)
            /\ UNCHANGED << products, clock >>
       ELSE IF product_id \notin DOMAIN products
       THEN /\ Reply("update_product", arg, 404, << "Product not found" >>)
            /\ UNCHANGED << products, clock >>
       ELSE /\ products' = [products EXCEPT ![product_id] =
                   [ProductUpdated(@, product_data, clock) EXCEPT !.is_active = TRUE]]
            /\ clock' = clock + 1
            /\ Reply("update_product", arg, 200,
                     << ProductResponseOf(product_id, products'[product_id]) >>)
    /\ UNCHANGED << customers, staff, signals, webhooks, sales, handlers >>

\* an update of the product is carried into the line items that name it
update_product_rewrites_sales(token, product_id, product_data) ==
    /\ OfficeTurn
    /\ LET arg == [token |-> token, product_id |-> product_id, product_data |-> product_data] IN
       IF require_admin_or_agent(token) # "pass"
       THEN /\ Forbidden("update_product", token)
            /\ UNCHANGED << products, sales, clock >>
       ELSE IF product_id \notin DOMAIN products
       THEN /\ Reply("update_product", arg, 404, << "Product not found" >>)
            /\ UNCHANGED << products, sales, clock >>
       ELSE /\ products' = [products EXCEPT ![product_id] =
                               ProductUpdated(@, product_data, clock)]
            /\ sales' = [i \in 1..Len(sales) |->
                           [sales[i] EXCEPT !.items =
                               [k \in 1..Len(sales[i].items) |->
                                   IF sales[i].items[k].product_id = product_id
                                   THEN [sales[i].items[k] EXCEPT
                                            !.name = product_data.name,
                                            !.unit_price = DecimalToStr(product_data.price)]
                                   ELSE sales[i].items[k]]]]
            /\ clock' = clock + 1
            /\ Reply("update_product", arg, 200,
                     << ProductResponseOf(product_id, products'[product_id]) >>)
    /\ UNCHANGED << customers, staff, signals, webhooks, handlers >>

\* update_product: 404 when the id names no row; else the fields are set,
\* is_active is not among them; commit and read back
update_product(token, product_id, product_data) ==
    /\ OfficeTurn
    /\ LET arg == [token |-> token, product_id |-> product_id, product_data |-> product_data] IN
       IF require_admin_or_agent(token) # "pass"
       THEN /\ Forbidden("update_product", token)
            /\ UNCHANGED << products, clock >>
       ELSE IF product_id \notin DOMAIN products
       THEN /\ Reply("update_product", arg, 404, << "Product not found" >>)
            /\ UNCHANGED << products, clock >>
       ELSE /\ products' = [products EXCEPT ![product_id] =
                               ProductUpdated(@, product_data, clock)]
            /\ clock' = clock + 1
            /\ Reply("update_product", arg, 200,
                     << ProductResponseOf(product_id, products'[product_id]) >>)
    /\ UNCHANGED << customers, staff, signals, webhooks, sales, handlers >>

\* delete_product: 404 when the id names no row; else is_active = False
\* and updated_at = now, committed
delete_product(token, product_id) ==
    /\ OfficeTurn
    /\ LET arg == [token |-> token, product_id |-> product_id] IN
       IF require_admin_or_agent(token) # "pass"
       THEN /\ Forbidden("delete_product", token)
            /\ UNCHANGED << products, clock >>
       ELSE IF product_id \notin DOMAIN products
       THEN /\ Reply("delete_product", arg, 404, << "Product not found" >>)
            /\ UNCHANGED << products, clock >>
       ELSE /\ products' = [products EXCEPT ![product_id].is_active = FALSE,
                                            ![product_id].updated_at = clock]
            /\ clock' = clock + 1
            /\ Reply("delete_product", arg, 200,
                     << [message |-> "deactivated successfully",
                         name |-> products[product_id].name] >>)
    /\ UNCHANGED << customers, staff, signals, webhooks, sales, handlers >>

\* StaffResponse(...) of a row
StaffResponseOf(id, row) == [id |-> id] @@ row

\* ids id_generator('staff') has not handed out yet
FreshStaffIds == {"s3"}

\* list_staff: select(Staff).where(is_active == True)
list_staff(token) ==
    /\ OfficeTurn
    /\ LET arg == [token |-> token, all |-> TRUE] IN
       IF require_admin_or_agent(token) # "pass"
       THEN Forbidden("list_staff", token)
       ELSE Reply("list_staff", arg, 200,
                  << { StaffResponseOf(x, staff[x]) :
                          x \in { y \in DOMAIN staff : staff[y].is_active } } >>)
    /\ UNCHANGED << customers, products, staff, signals, webhooks, sales, clock,
                    handlers >>

\* create_staff: a new active row
create_staff(token, name) ==
    /\ OfficeTurn
    /\ LET arg == [token |-> token, name |-> name] IN
       IF require_admin_or_agent(token) # "pass"
       THEN /\ Forbidden("create_staff", token)
            /\ UNCHANGED << staff, clock >>
       ELSE \E id \in FreshStaffIds \ DOMAIN staff :
            /\ staff' = staff @@
                  (id :> [name |-> name, is_active |-> TRUE, updated_at |-> clock])
            /\ clock' = clock + 1
            /\ Reply("create_staff", arg, 200, << StaffResponseOf(id, staff'[id]) >>)
    /\ UNCHANGED << customers, products, signals, webhooks, sales, handlers >>

\* update_staff: name (and schedule) are set; is_active is not touched
update_staff(token, staff_id, name) ==
    /\ OfficeTurn
    /\ LET arg == [token |-> token, staff_id |-> staff_id, name |-> name] IN
       IF require_admin_or_agent(token) # "pass"
       THEN /\ Forbidden("update_staff", token)
            /\ UNCHANGED << staff, clock >>
       ELSE IF staff_id \notin DOMAIN staff
       THEN /\ Reply("update_staff", arg, 404, << "Staff member not found" >>)
            /\ UNCHANGED << staff, clock >>
       ELSE /\ staff' = [staff EXCEPT ![staff_id].name = name,
                                      ![staff_id].updated_at = clock]
            /\ clock' = clock + 1
            /\ Reply("update_staff", arg, 200,
                     << StaffResponseOf(staff_id, staff'[staff_id]) >>)
    /\ UNCHANGED << customers, products, signals, webhooks, sales, handlers >>

\* the staff row is deleted and the sales it made are deleted with it
delete_staff_cascades(token, staff_id) ==
    /\ OfficeTurn
    /\ LET arg == [token |-> token, staff_id |-> staff_id] IN
       IF require_admin_or_agent(token) # "pass"
       THEN /\ Forbidden("delete_staff", token)
            /\ UNCHANGED << staff, sales >>
       ELSE IF staff_id \notin DOMAIN staff
       THEN /\ Reply("delete_staff", arg, 404, << "Staff member not found" >>)
            /\ UNCHANGED << staff, sales >>
       ELSE /\ staff' = [x \in DOMAIN staff \ {staff_id} |-> staff[x]]
            /\ LET Kept(sale) == sale.staff_id # staff_id IN
               sales' = SelectSeq(sales, Kept)
            /\ Reply("delete_staff", arg, 200,
                     << [message |-> "deactivated successfully",
                         name |-> staff[staff_id].name] >>)
    /\ UNCHANGED << customers, products, signals, webhooks, clock, handlers >>

\* the staff row is deleted and the sales that name it are left as they are
delete_staff_hard(token, staff_id) ==
    /\ OfficeTurn
    /\ LET arg == [token |-> token, staff_id |-> staff_id] IN
       IF require_admin_or_agent(token) # "pass"
       THEN /\ Forbidden("delete_staff", token)
            /\ UNCHANGED << staff, clock >>
       ELSE IF staff_id \notin DOMAIN staff
       THEN /\ Reply("delete_staff", arg, 404, << "Staff member not found" >>)
            /\ UNCHANGED << staff, clock >>
       ELSE /\ staff' = [x \in DOMAIN staff \ {staff_id} |-> staff[x]]
            /\ clock' = clock + 1
            /\ Reply("delete_staff", arg, 200,
                     << [message |-> "deactivated successfully",
                         name |-> staff[staff_id].name] >>)
    /\ UNCHANGED << customers, products, signals, webhooks, sales, handlers >>

\* delete_staff: is_active = False and updated_at = now (soft delete)
delete_staff(token, staff_id) ==
    /\ OfficeTurn
    /\ LET arg == [token |-> token, staff_id |-> staff_id] IN
       IF require_admin_or_agent(token) # "pass"
       THEN /\ Forbidden("delete_staff", token)
            /\ UNCHANGED << staff, clock >>
       ELSE IF staff_id \notin DOMAIN staff
       THEN /\ Reply("delete_staff", arg, 404, << "Staff member not found" >>)
            /\ UNCHANGED << staff, clock >>
       ELSE /\ staff' = [staff EXCEPT ![staff_id].is_active = FALSE,
                                      ![staff_id].updated_at = clock]
            /\ clock' = clock + 1
            /\ Reply("delete_staff", arg, 200,
                     << [message |-> "deactivated successfully",
                         name |-> staff[staff_id].name] >>)
    /\ UNCHANGED << customers, products, signals, webhooks, sales, handlers >>

\* ids id_generator has not handed out yet for a signal
FreshSignalIds == {"g2"}

\* the optional is_active of a SignalRequest body: None or false
SignalActiveInputs == { <<>>, << FALSE >> }

\* create_signal: is_active as asked, True when the body does not say
create_signal(token, is_active) ==
    /\ OfficeTurn
    /\ LET arg == [token |-> token, is_active |-> is_active] IN
       IF require_admin_or_agent(token) # "pass"
       THEN /\ Forbidden("create_signal", token)
            /\ UNCHANGED signals
       ELSE \E id \in FreshSignalIds \ DOMAIN signals :
            /\ signals' = signals @@
                  (id :> [is_active |-> IF is_active # <<>> THEN is_active[1] ELSE TRUE])
            /\ Reply("create_signal", arg, 201, << [id |-> id] @@ signals'[id] >>)
    /\ UNCHANGED << customers, products, staff, webhooks, sales, clock, handlers >>

\* list_signals: every row, active or not
list_signals(token) ==
    /\ OfficeTurn
    /\ LET arg == [token |-> token, all |-> TRUE] IN
       IF require_admin_or_agent(token) # "pass"
       THEN Forbidden("list_signals", token)
       ELSE Reply("list_signals", arg, 200,
                  << { [id |-> g] @@ signals[g] : g \in DOMAIN signals } >>)
    /\ UNCHANGED << customers, products, staff, signals, webhooks, sales, clock,
                    handlers >>

\* get_signal: the row by id, 404 when there is none
get_signal(token, signal_id) ==
    /\ OfficeTurn
    /\ LET arg == [token |-> token, signal_id |-> signal_id] IN
       IF require_admin_or_agent(token) # "pass"
       THEN Forbidden("get_signal", token)
       ELSE IF signal_id \notin DOMAIN signals
       THEN Reply("get_signal", arg, 404, << "Signal not found" >>)
       ELSE Reply("get_signal", arg, 200, << [id |-> signal_id] @@ signals[signal_id] >>)
    /\ UNCHANGED << customers, products, staff, signals, webhooks, sales, clock,
                    handlers >>

\* update_signal: is_active as asked, left as it is when the body does not say
update_signal(token, signal_id, is_active) ==
    /\ OfficeTurn
    /\ LET arg == [token |-> token, signal_id |-> signal_id, is_active |-> is_active] IN
       IF require_admin_or_agent(token) # "pass"
       THEN /\ Forbidden("update_signal", token)
            /\ UNCHANGED signals
       ELSE IF signal_id \notin DOMAIN signals
       THEN /\ Reply("update_signal", arg, 404, << "Signal not found" >>)
            /\ UNCHANGED signals
       ELSE /\ signals' = [signals EXCEPT ![signal_id].is_active =
                               IF is_active # <<>> THEN is_active[1] ELSE @]
            /\ Reply("update_signal", arg, 200, << [id |-> signal_id] @@ signals'[signal_id] >>)
    /\ UNCHANGED << customers, products, staff, webhooks, sales, clock, handlers >>

\* delete_signal: the row is deleted (hard delete)
delete_signal(token, signal_id) ==
    /\ OfficeTurn
    /\ LET arg == [token |-> token, signal_id |-> signal_id] IN
       IF require_admin_or_agent(token) # "pass"
       THEN /\ Forbidden("delete_signal", token)
            /\ UNCHANGED signals
       ELSE IF signal_id \notin DOMAIN signals
       THEN /\ Reply("delete_signal", arg, 404, << "Signal not found" >>)
            /\ UNCHANGED signals
       ELSE /\ signals' = [g \in DOMAIN signals \ {signal_id} |-> signals[g]]
            /\ Reply("delete_signal", arg, 200, << "Signal deleted successfully" >>)
    /\ UNCHANGED << customers, products, staff, webhooks, sales, clock, handlers >>

\* ids id_generator has not handed out yet for a webhook
FreshWebhookIds == {"h2"}

\* the optional is_active of a WebhookRequest body: None or false
WebhookActiveInputs == { <<>>, << FALSE >> }

\* create_webhook: is_active as asked, True when the body does not say
create_webhook(token, is_active) ==
    /\ OfficeTurn
    /\ LET arg == [token |-> token, is_active |-> is_active] IN
       IF require_admin_or_agent(token) # "pass"
       THEN /\ Forbidden("create_webhook", token)
            /\ UNCHANGED webhooks
       ELSE \E id \in FreshWebhookIds \ DOMAIN webhooks :
            /\ webhooks' = webhooks @@
                  (id :> [is_active |-> IF is_active # <<>> THEN is_active[1] ELSE TRUE])
            /\ Reply("create_webhook", arg, 201, << [id |-> id] @@ webhooks'[id] >>)
    /\ UNCHANGED << customers, products, staff, signals, sales, clock, handlers >>

\* list_webhooks: every row, active or not
list_webhooks(token) ==
    /\ OfficeTurn
    /\ LET arg == [token |-> token, all |-> TRUE] IN
       IF require_admin_or_agent(token) # "pass"
       THEN Forbidden("list_webhooks", token)
       ELSE Reply("list_webhooks", arg, 200,
                  << { [id |-> g] @@ webhooks[g] : g \in DOMAIN webhooks } >>)
    /\ UNCHANGED << customers, products, staff, signals, webhooks, sales, clock,
                    handlers >>

\* get_webhook: the row by id, 404 when there is none
get_webhook(token, webhook_id) ==
    /\ OfficeTurn
    /\ LET arg == [token |-> token, webhook_id |-> webhook_id] IN
       IF require_admin_or_agent(token) # "pass"
       THEN Forbidden("get_webhook", token)
       ELSE IF webhook_id \notin DOMAIN webhooks
       THEN Reply("get_webhook", arg, 404, << "Webhook not found" >>)
       ELSE Reply("get_webhook", arg, 200, << [id |-> webhook_id] @@ webhooks[webhook_id] >>)
    /\ UNCHANGED << customers, products, staff, signals, webhooks, sales, clock,
                    handlers >>

\* update_webhook: is_active as asked, left as it is when the body does not say
update_webhook(token, webhook_id, is_active) ==
    /\ OfficeTurn
    /\ LET arg == [token |-> token, webhook_id |-> webhook_id, is_active |-> is_active] IN
       IF require_admin_or_agent(token) # "pass"
       THEN /\ Forbidden("update_webhook", token)
            /\ UNCHANGED webhooks
       ELSE IF webhook_id \notin DOMAIN webhooks
       THEN /\ Reply("update_webhook", arg, 404, << "Webhook not found" >>)
            /\ UNCHANGED webhooks
       ELSE /\ webhooks' = [webhooks EXCEPT ![webhook_id].is_active =
                               IF is_active # <<>> THEN is_active[1] ELSE @]
            /\ Reply("update_webhook", arg, 200, << [id |-> webhook_id] @@ webhooks'[webhook_id] >>)
    /\ UNCHANGED << customers, products, staff, signals, sales, clock, handlers >>

\* delete_webhook: the row is deleted (hard delete)
delete_webhook(token, webhook_id) ==
    /\ OfficeTurn
    /\ LET arg == [token |-> token, webhook_id |-> webhook_id] IN
       IF require_admin_or_agent(token) # "pass"
       THEN /\ Forbidden("delete_webhook", token)
            /\ UNCHANGED webhooks
       ELSE IF webhook_id \notin DOMAIN webhooks
       THEN /\ Reply("delete_webhook", arg, 404, << "Webhook not found" >>)
            /\ UNCHANGED webhooks
       ELSE /\ webhooks' = [g \in DOMAIN webhooks \ {webhook_id} |-> webhooks[g]]
            /\ Reply("delete_webhook", arg, 200, << "Webhook deleted successfully" >>)
    /\ UNCHANGED << customers, products, staff, signals, sales, clock, handlers >>

\* the ids the back office calls its operations with: a row of Init, the
\* row a create can add, and an id that names no row
OfficeCustomerIds == {"c1", "c3", "cX"}
OfficeProductIds == {"p1", "p2", "pX"}
OfficeStaffIds == {"s1", "sX"}
OfficeSignalIds == {"g1", "g2"}
OfficeWebhookIds == {"h1", "h2"}

\* the names the back office writes
CustomerNames == {"Different Name"}
StaffNames == {"Renamed Staff"}
\* the balances update_customer_wallet is asked to set
WalletInputs == {10000}
\* phone numbers create_customer and search_customers are called with
PhoneInputs == {"555-0001", "555-0003"}
PhoneQueries == {"0001"}
ProductQueries == {"Product"}

\* an operation on customers, products or staff is called
CatalogOps ==
    \/ \E t \in OfficeTokens, q \in PhoneQueries : search_customers(t, q)
    \/ \E t \in OfficeTokens, ph \in PhoneInputs, n \in CustomerNames :
          create_customer(t, ph, n)
    \/ \E t \in OfficeTokens, c \in OfficeCustomerIds, n \in CustomerNames :
          update_customer(t, c, n)
    \/ \E t \in OfficeTokens, c \in OfficeCustomerIds, v \in WalletInputs :
          update_customer_wallet(t, c, v)
    \/ \E t \in OfficeTokens, c \in OfficeCustomerIds : get_customer_sales(t, c)
    \/ \E t \in OfficeTokens, pg \in Pages, sz \in PageSizes : list_sales(t, pg, sz)
    \/ \E t \in OfficeTokens, id \in IdRange : get_sale(t, id)
    \/ \E t \in OfficeTokens : list_products(t)
    \/ \E t \in OfficeTokens, q \in ProductQueries : search_products(t, q)
    \/ \E t \in OfficeTokens, d \in ProductInputs : create_product(t, d)
    \/ \E t \in OfficeTokens, p \in OfficeProductIds, d \in ProductInputs :
          update_product(t, p, d)
    \/ \E t \in OfficeTokens, p \in OfficeProductIds : delete_product(t, p)
    \/ \E t \in OfficeTokens : list_staff(t)
    \/ \E t \in OfficeTokens, n \in StaffNames : create_staff(t, n)
    \/ \E t \in OfficeTokens, x \in OfficeStaffIds, n \in StaffNames : update_staff(t, x, n)
    \/ \E t \in OfficeTokens, x \in OfficeStaffIds : delete_staff(t, x)

\* an operation on the notification targets is called
TargetOps ==
    \/ \E t \in OfficeTokens, a \in SignalActiveInputs : create_signal(t, a)
    \/ \E t \in OfficeTokens : list_signals(t)
    \/ \E t \in OfficeTokens, g \in OfficeSignalIds : get_signal(t, g)
    \/ \E t \in OfficeTokens, g \in OfficeSignalIds, a \in SignalActiveInputs :
          update_signal(t, g, a)
    \/ \E t \in OfficeTokens, g \in OfficeSignalIds : delete_signal(t, g)
    \/ \E t \in OfficeTokens, a \in WebhookActiveInputs : create_webhook(t, a)
    \/ \E t \in OfficeTokens : list_webhooks(t)
    \/ \E t \in OfficeTokens, h \in OfficeWebhookIds : get_webhook(t, h)
    \/ \E t \in OfficeTokens, h \in OfficeWebhookIds, a \in WebhookActiveInputs :
          update_webhook(t, h, a)
    \/ \E t \in OfficeTokens, h \in OfficeWebhookIds : delete_webhook(t, h)

\* the store of Init with g1 and h1 registered, and the back office at work
InitApi ==
    /\ InitStore
    /\ signals = [g \in {"g1"} |-> [is_active |-> TRUE]]
    /\ webhooks = [h \in {"h1"} |-> [is_active |-> TRUE]]
    /\ InitWorkers
    /\ serial = TRUE
    /\ mode = "office"
    /\ recon = NoRecon

NextApi ==
    \/ \E w \in Workers, r \in OfficeRequests : Begin(w, r)
    \/ HandlerStep
    \/ CatalogOps
    \/ TargetOps

\* one server process handling create_sale and every other operation; the
\* background tasks are left waiting
SpecApi == InitApi /\ [][NextApi]_vars

(* ---------------------- list_sales called on its own ------------------- *)

\* most sales in the table list_sales is called on
MaxListed == 3

\* the i-th sale create_sale committed: id i, flushed at time 2i - 1
ListedSale(i) ==
    NewSale(SaleRequestOf("http", AdminToken, "c1", "s1", << Cash(18000) >>, 18),
            i, 2 * i - 1)

\* the Sale tables after k sales of 18 points for c1: the rows in the order
\* of their commits, which need not be the order of their created_at
SaleTables(k) == Orderings({ ListedSale(i) : i \in 1..k })

\* the page numbers, and the page sizes, list_sales is called with
ListPages == 1..MaxListed

\* the store after up to MaxListed sales, no request in hand
InitList ==
    /\ \E k \in 0..MaxListed :
         /\ sales \in SaleTables(k)
         /\ customers = [c \in {"c1", "c2"} |->
                           [phone |-> IF c = "c1" THEN "555-0001" ELSE "555-0002",
                            name |-> IF c = "c1" THEN "John Doe" ELSE "Jane Roe",
                            loyalty_points |-> IF c = "c1" THEN 50000 + 18000 * k ELSE 0,
                            is_active |-> TRUE,
                            updated_at |-> IF c = "c1" THEN 2 * k ELSE 0]]
         /\ nreq = k
         /\ nextId = k + 1
         /\ clock = 2 * k + 1
    /\ staff = [s \in {"s1", "s2"} |-> [name |-> s, is_active |-> s = "s1", updated_at |-> 0]]
    /\ products = [p \in {"p1"} |->
                     [name |-> "Test Product", description |-> << "Sold by the piece" >>,
                      price |-> 18000, is_active |-> TRUE, updated_at |-> 0]]
    /\ signals = [g \in {"g1"} |-> [is_active |-> TRUE]]
    /\ webhooks = [h \in {"h1"} |-> [is_active |-> TRUE]]
    /\ pc = [w \in Workers |-> "idle"]
    /\ req = [w \in Workers |-> <<>>]
    /\ sess = [w \in Workers |-> NoSession]
    /\ resp = [w \in Workers |-> <<>>]
    /\ pre = [w \in Workers |-> <<>>]
    /\ dispatches = {}
    /\ posts = << >>
    /\ attempts = << >>
    /\ ops = 0
    /\ last = << >>
    /\ serial = TRUE
    /\ mode = "office"
    /\ recon = NoRecon

NextList ==
    \E t \in OfficeTokens, pg \in ListPages, sz \in ListPages : list_sales(t, pg, sz)

SpecList == InitList /\ [][NextList]_vars

(* ------------------------- testing a target ---------------------------- *)

\* response.text[:500]: the characters of the body that are kept
BodyLimit == 500

\* what the POST of a test can meet: a response with a status and a body of
\* some length, a timeout, a transport error, or any other exception
TestOutcomes ==
    { [kind |-> "response", status_code |-> s, text |-> n] :
        s \in {199, 200, 204, 299, 300, 404, 500}, n \in {0, 500, 501} }
    \cup { [kind |-> k, status_code |-> 0, text |-> 0] :
             k \in {"timeout", "request_error", "exception"} }

\* the dict test_webhook returns; a body is modelled by its length
test_webhook(outcome) ==
    IF outcome.kind = "response"
    THEN [success |-> outcome.status_code >= 200 /\ outcome.status_code < 300,
          status_code |-> << outcome.status_code >>,
          response_body |-> << IF outcome.text < BodyLimit THEN outcome.text
                               ELSE BodyLimit >>,
          error |-> <<>>]
    ELSE [success |-> FALSE, status_code |-> <<>>, response_body |-> <<>>,
          error |-> << IF outcome.kind = "timeout"
                       THEN "Request timed out (10 seconds)"
                       ELSE IF outcome.kind = "request_error"
                       THEN "Request error"
                       ELSE "Unexpected error" >>]

\* the dict test_signal returns
test_signal(outcome) == test_webhook(outcome)

\* test_webhook without its last except clause: another exception goes up
\* to the framework, which answers 500
test_webhook_endpoint_raises(token, webhook_id, outcome) ==
    /\ OfficeTurn
    /\ LET arg == [token |-> token, id |-> webhook_id, outcome |-> outcome] IN
       IF require_admin_or_agent(token) # "pass"
       THEN Forbidden("test_webhook", token)
       ELSE IF webhook_id \notin DOMAIN webhooks
       THEN Reply("test_webhook", arg, 404, << "Webhook not found" >>)
       ELSE IF outcome.kind = "exception"
       THEN Reply("test_webhook", arg, 500, << "Internal Server Error" >>)
       ELSE Reply("test_webhook", arg, 200, << test_webhook(outcome) >>)
    /\ UNCHANGED << customers, products, staff, signals, webhooks, sales, clock,
                    handlers >>

\* test_webhook_endpoint: 404 when there is no such webhook, else the
\* result of test_webhook as a WebhookTestResponse
test_webhook_endpoint(token, webhook_id, outcome) ==
    /\ OfficeTurn
    /\ LET arg == [token |-> token, id |-> webhook_id, outcome |-> outcome] IN
       IF require_admin_or_agent(token) # "pass"
       THEN Forbidden("test_webhook", token)
       ELSE IF webhook_id \notin DOMAIN webhooks
       THEN Reply("test_webhook", arg, 404, << "Webhook not found" >>)
       ELSE Reply("test_webhook", arg, 200, << test_webhook(outcome) >>)
    /\ UNCHANGED << customers, products, staff, signals, webhooks, sales, clock,
                    handlers >>

\* test_signal_endpoint: the same operation on the SaleSignal table
test_signal_endpoint(token, signal_id, outcome) ==
    /\ OfficeTurn
    /\ LET arg == [token |-> token, id |-> signal_id, outcome |-> outcome] IN
       IF require_admin_or_agent(token) # "pass"
       THEN Forbidden("test_signal", token)
       ELSE IF signal_id \notin DOMAIN signals
       THEN Reply("test_signal", arg, 404, << "Signal not found" >>)
       ELSE Reply("test_signal", arg, 200, << test_signal(outcome) >>)
    /\ UNCHANGED << customers, products, staff, signals, webhooks, sales, clock,
                    handlers >>

\* the SaleSignal tables over SignalIds
SignalTables ==
    UNION { [G -> { [is_active |-> a] : a \in BOOLEAN }] : G \in SUBSET SignalIds }

\* the store after one sale, with any targets registered, and an operator
\* about to test them
InitTest ==
    /\ customers = [c \in {"c1", "c2"} |->
                      [phone |-> IF c = "c1" THEN "555-0001" ELSE "555-0002",
                       name |-> IF c = "c1" THEN "John Doe" ELSE "Jane Roe",
                       loyalty_points |-> IF c = "c1" THEN 68000 ELSE 0,
                       is_active |-> TRUE, updated_at |-> IF c = "c1" THEN 2 ELSE 0]]
    /\ staff = [s \in {"s1", "s2"} |-> [name |-> s, is_active |-> s = "s1", updated_at |-> 0]]
    /\ products = [p \in {"p1"} |->
                     [name |-> "Test Product", description |-> << "Sold by the piece" >>,
                      price |-> 18000, is_active |-> TRUE, updated_at |-> 0]]
    /\ sales = << CommittedSale >>
    /\ signals \in SignalTables
    /\ webhooks \in WebhookTables
    /\ pc = [w \in Workers |-> "idle"]
    /\ req = [w \in Workers |-> <<>>]
    /\ sess = [w \in Workers |-> NoSession]
    /\ resp = [w \in Workers |-> <<>>]
    /\ pre = [w \in Workers |-> <<>>]
    /\ nreq = 1
    /\ nextId = 2
    /\ clock = 3
    /\ dispatches = {}
    /\ posts = << >>
    /\ attempts = << >>
    /\ ops = 0
    /\ last = << >>
    /\ serial = TRUE
    /\ mode = "office"
    /\ recon = NoRecon

NextTest ==
    \/ \E t \in OfficeTokens, h \in OfficeWebhookIds, o \in TestOutcomes :
          test_webhook_endpoint(t, h, o)
    \/ \E t \in OfficeTokens, g \in OfficeSignalIds, o \in TestOutcomes :
          test_signal_endpoint(t, g, o)

SpecTest == InitTest /\ [][NextTest]_vars

(* ------------- targets managed while a sale is dispatched -------------- *)

\* is_active in the body of an update: None, false or true
TargetActiveInputs == { <<>>, << FALSE >>, << TRUE >> }

\* the sale of CommittedSale was committed with g1, h1 active and h3
\* inactive; both dispatchers were called for it and have not loaded their
\* targets yet.  pre keeps the store as it was when the sale's request began.
InitTargets ==
    /\ customers = [c \in {"c1", "c2"} |->
                      [phone |-> IF c = "c1" THEN "555-0001" ELSE "555-0002",
                       name |-> IF c = "c1" THEN "John Doe" ELSE "Jane Roe",
                       loyalty_points |-> IF c = "c1" THEN 68000 ELSE 0,
                       is_active |-> TRUE, updated_at |-> IF c = "c1" THEN 2 ELSE 0]]
    /\ staff = [s \in {"s1", "s2"} |-> [name |-> s, is_active |-> s = "s1", updated_at |-> 0]]
    /\ products = [p \in {"p1"} |->
                     [name |-> "Test Product", description |-> << "Sold by the piece" >>,
                      price |-> 18000, is_active |-> TRUE, updated_at |-> 0]]
    /\ sales = << CommittedSale >>
    /\ signals = [g \in {"g1"} |-> [is_active |-> TRUE]]
    /\ webhooks = [h \in {"h1", "h3"} |-> [is_active |-> h = "h1"]]
    /\ pc = [w \in Workers |-> "idle"]
    /\ req = [w \in Workers |-> <<>>]
    /\ sess = [w \in Workers |-> NoSession]
    /\ resp = [w \in Workers |-> <<>>]
    /\ pre = [w \in Workers |->
                IF w = "w1"
                THEN << [customers |->
                           [c \in {"c1", "c2"} |->
                              [phone |-> IF c = "c1" THEN "555-0001" ELSE "555-0002",
                               name |-> IF c = "c1" THEN "John Doe" ELSE "Jane Roe",
                               loyalty_points |-> IF c = "c1" THEN 50000 ELSE 0,
                               is_active |-> TRUE, updated_at |-> 0]],
                         staff |-> [s \in {"s1", "s2"} |->
                                      [name |-> s, is_active |-> s = "s1",
                                       updated_at |-> 0]],
                         signals |-> [g \in {"g1"} |-> [is_active |-> TRUE]],
                         webhooks |-> [h \in {"h1", "h3"} |-> [is_active |-> h = "h1"]],
                         sales |-> <<>>] >>
                ELSE <<>>]
    /\ nreq = 1
    /\ nextId = 2
    /\ clock = 3
    /\ dispatches = { TaskOf(CommittedSale), WebhookTaskOf(CommittedSale) }
    /\ posts = << >>
    /\ attempts = << >>
    /\ ops = 0
    /\ last = << >>
    /\ serial = TRUE
    /\ mode = "office"
    /\ recon = NoRecon

NextTargets ==
    \/ \E t \in {AdminToken}, a \in TargetActiveInputs : create_signal(t, a)
    \/ \E t \in {AdminToken}, g \in SignalIds, a \in TargetActiveInputs :
          update_signal(t, g, a)
    \/ \E t \in {AdminToken}, g \in SignalIds : delete_signal(t, g)
    \/ \E t \in {AdminToken}, a \in TargetActiveInputs : create_webhook(t, a)
    \/ \E t \in {AdminToken}, h \in WebhookIds, a \in TargetActiveInputs :
          update_webhook(t, h, a)
    \/ \E t \in {AdminToken}, h \in WebhookIds : delete_webhook(t, h)
    \/ \E id \in IdRange : notify_sale_to_signals(id)
    \/ \E id \in IdRange, o \in {"2xx", "timeout"} : notify_single_signal(id, o)
    \/ \E id \in IdRange : notify_sale_to_webhooks(id)
    \/ \E id \in IdRange, o \in {"2xx", "timeout"} : notify_single_webhook(id, o)

\* the targets are created, updated and deleted while the dispatchers of a
\* committed sale wait for their turn and run
SpecTargets == InitTargets /\ [][NextTargets]_vars

(* ------------- create_sale while a staff member is deleted ------------- *)

\* two server processes handle create_sale while a third handles
\* delete_staff, all on the one store
InitStaffRace ==
    /\ InitStore
    /\ signals = [g \in {"g1"} |-> [is_active |-> TRUE]]
    /\ webhooks = [h \in {"h1"} |-> [is_active |-> TRUE]]
    /\ InitWorkers
    /\ serial = FALSE
    /\ mode = "office"
    /\ recon = NoRecon

NextStaffRace ==
    \/ \E w \in Workers, r \in OfficeRequests : Begin(w, r)
    \/ HandlerStep
    \/ \E t \in OfficeTokens, x \in OfficeStaffIds : delete_staff(t, x)

SpecStaffRace == InitStaffRace /\ [][NextStaffRace]_vars

(* ------------------- every operation, by every caller ------------------ *)

\* an operation of the customers, sales, products or staff routers is called
GateCatalogOps ==
    \/ \E t \in GateTokens : search_customers(t, "0001")
    \/ \E t \in GateTokens : create_customer(t, "555-0003", "Different Name")
    \/ \E t \in GateTokens : update_customer(t, "c1", "Different Name")
    \/ \E t \in GateTokens : update_customer_wallet(t, "c1", 10000)
    \/ \E t \in GateTokens : get_customer_sales(t, "c2")
    \/ \E t \in GateTokens : list_sales(t, 1, 1)
    \/ \E t \in GateTokens : get_sale(t, 1)
    \/ \E t \in GateTokens : list_products(t)
    \/ \E t \in GateTokens : search_products(t, "Product")
    \/ \E t \in GateTokens, d \in ProductInputs : create_product(t, d)
    \/ \E t \in GateTokens, d \in ProductInputs : update_product(t, "p1", d)
    \/ \E t \in GateTokens : delete_product(t, "p1")
    \/ \E t \in GateTokens : list_staff(t)
    \/ \E t \in GateTokens : create_staff(t, "Renamed Staff")
    \/ \E t \in GateTokens : update_staff(t, "s1", "Renamed Staff")
    \/ \E t \in GateTokens : delete_staff(t, "s2")

\* an operation of the signals or webhooks routers is called
GateTargetOps ==
    \/ \E t \in GateTokens : create_signal(t, <<>>)
    \/ \E t \in GateTokens : list_signals(t)
    \/ \E t \in GateTokens : get_signal(t, "g1")
    \/ \E t \in GateTokens : update_signal(t, "g1", << FALSE >>)
    \/ \E t \in GateTokens : delete_signal(t, "g1")
    \/ \E t \in GateTokens : test_signal_endpoint(t, "g1", [kind |-> "timeout", status_code |-> 0, text |-> 0])
    \/ \E t \in GateTokens : create_webhook(t, <<>>)
    \/ \E t \in GateTokens : list_webhooks(t)
    \/ \E t \in GateTokens : get_webhook(t, "h1")
    \/ \E t \in GateTokens : update_webhook(t, "h1", << FALSE >>)
    \/ \E t \in GateTokens : delete_webhook(t, "h1")
    \/ \E t \in GateTokens : test_webhook_endpoint(t, "h1", [kind |-> "timeout", status_code |-> 0, text |-> 0])

\* the store of Init with g1 and h1 registered; every operation of the API
\* is called by every kind of caller
InitGate ==
    /\ InitStore
    /\ signals = [g \in {"g1"} |-> [is_active |-> TRUE]]
    /\ webhooks = [h \in {"h1"} |-> [is_active |-> TRUE]]
    /\ InitWorkers
    /\ serial = TRUE
    /\ mode = "gate"
    /\ recon = NoRecon

NextGate ==
    \/ \E w \in Workers, r \in GateRequests : Begin(w, r)
    \/ HandlerStep
    \/ GateCatalogOps
    \/ GateTargetOps

SpecGate == InitGate /\ [][NextGate]_vars

(* ---------------- sales and customer management together -------------- *)

\* two server processes handle create_sale while a third handles the
\* customer operations, all on the one store
InitLedger ==
    /\ InitStore
    /\ signals = [g \in {"g1"} |-> [is_active |-> TRUE]]
    /\ webhooks = [h \in {"h1"} |-> [is_active |-> TRUE]]
    /\ InitWorkers
    /\ serial = FALSE
    /\ mode = "ledger"
    /\ recon = NoRecon

NextLedger ==
    \/ \E w \in Workers, r \in LedgerRequests : Begin(w, r)
    \/ HandlerStep
    \/ \E t \in {AdminToken}, ph \in PhoneInputs, n \in CustomerNames :
          create_customer(t, ph, n)
    \/ \E t \in {AdminToken}, c \in {"c1", "c3"}, n \in CustomerNames :
          update_customer(t, c, n)
    \/ \E t \in {AdminToken}, c \in {"c1", "c3"}, v \in WalletInputs :
          update_customer_wallet(t, c, v)

SpecLedger == InitLedger /\ [][NextLedger]_vars

(* ------------- create_customer called twice at the same time ----------- *)

\* ids id_generator('customer') hands to the rows these calls add
RaceCustomerIds == {"c3", "c4"}

\* a create_customer request is handed to a server process
BeginCreateCustomer(w, token, phone, name) ==
    /\ pc[w] = "idle"
    /\ nreq < MaxRequests
    /\ mode = "office"
    /\ ~serial
    /\ nreq' = nreq + 1
    /\ req' = [req EXCEPT ![w] = << [op |-> "create_customer", via |-> "http",
                                     token |-> token, phone |-> phone,
                                     name |-> name] >>]
    /\ resp' = [resp EXCEPT ![w] = <<>>]
    /\ sess' = [sess EXCEPT ![w] = NoSession]
    /\ pc' = [pc EXCEPT ![w] = "select_customer"]
    /\ UNCHANGED << customers, staff, signals, sales, pre, nextId, clock,
                    dispatches, posts, serial, recon, office >>

\* create_customer up to its first return: the gate, the SELECT by phone,
\* and the existing customer answered as it is
SelectCustomer(w) ==
    /\ pc[w] = "select_customer"
    /\ LET r == req[w][1]
           existing == { c \in DOMAIN customers : customers[c].phone = r.phone }
       IN  IF require_admin_or_agent(r.token) # "pass"
           THEN Answer(w, 403, require_admin_or_agent(r.token), <<>>)
           ELSE IF existing # {}
           THEN Answer(w, 200, "OK",
                       << CustomerResponseOf(CHOOSE c \in existing : TRUE,
                                             customers[CHOOSE c \in existing : TRUE]) >>)
           ELSE /\ pc' = [pc EXCEPT ![w] = "insert_customer"]
                /\ UNCHANGED resp
    /\ UNCHANGED << customers, staff, signals, sales, req, sess, pre, nreq,
                    nextId, clock, dispatches, posts, serial, recon, office >>

\* the Customer table without its unique index on phone: the INSERT goes
\* through whatever the rows there are
InsertCustomerNoIndex(w) ==
    /\ pc[w] = "insert_customer"
    /\ LET r == req[w][1] IN
       \E id \in RaceCustomerIds \ DOMAIN customers :
          /\ customers' = customers @@
                (id :> [phone |-> r.phone, name |-> r.name, loyalty_points |-> 0,
                        is_active |-> TRUE, updated_at |-> clock])
          /\ clock' = clock + 1
          /\ Answer(w, 200, "OK", << CustomerResponseOf(id, customers'[id]) >>)
    /\ UNCHANGED << staff, signals, sales, req, sess, pre, nreq, nextId,
                    dispatches, posts, serial, recon, office >>

\* Customer(...), add, commit: the INSERT fails on the unique index of
\* Customer.phone when a row with the phone was committed meanwhile, and the
\* IntegrityError, which nothing catches, is answered 500
InsertCustomer(w) ==
    /\ pc[w] = "insert_customer"
    /\ LET r == req[w][1] IN
       IF \E c \in DOMAIN customers : customers[c].phone = r.phone
       THEN /\ Answer(w, 500, "Internal Server Error", <<>>)
            /\ UNCHANGED << customers, clock >>
       ELSE \E id \in RaceCustomerIds \ DOMAIN customers :
            /\ customers' = customers @@
                  (id :> [phone |-> r.phone, name |-> r.name, loyalty_points |-> 0,
                          is_active |-> TRUE, updated_at |-> clock])
            /\ clock' = clock + 1
            /\ Answer(w, 200, "OK", << CustomerResponseOf(id, customers'[id]) >>)
    /\ UNCHANGED << staff, signals, sales, req, sess, pre, nreq, nextId,
                    dispatches, posts, serial, recon, office >>

\* the customers update_customer is called for
RaceUpdateIds == {"c1", "c3", "c4"}

\* the names of the create_customer requests; their phones are PhoneInputs
RaceNames == {"Different Name", "Other Name"}

\* two server processes handle create_customer while a third handles
\* update_customer, all on the one store
InitPhones ==
    /\ InitStore
    /\ signals = [g \in {"g1"} |-> [is_active |-> TRUE]]
    /\ webhooks = [h \in {"h1"} |-> [is_active |-> TRUE]]
    /\ InitWorkers
    /\ serial = FALSE
    /\ mode = "office"
    /\ recon = NoRecon

NextPhones ==
    \/ \E w \in Workers, t \in OfficeTokens, ph \in PhoneInputs, n \in RaceNames :
          BeginCreateCustomer(w, t, ph, n)
    \/ \E w \in Workers : SelectCustomer(w)
    \/ \E w \in Workers : InsertCustomer(w)
    \/ \E t \in OfficeTokens, c \in RaceUpdateIds, n \in RaceNames :
          update_customer(t, c, n)

SpecPhones == InitPhones /\ [][NextPhones]_vars

(* ------------------------------ properties ----------------------------- *)

\* worker w has answered its last request
Answered(w) == pc[w] = "idle" /\ resp[w] # <<>>

\* the Sale and Customer tables are as they were when w's request began
StoreAsBefore(w) ==
    /\ sales = pre[w][1].sales
    /\ customers = pre[w][1].customers

\* the store holds w's request's Sale row, added to the table as it was
\* before, and its customer's balance raised by loyalty_points_generated
SaleAndPointsAdded(w) ==
    LET r == req[w][1]
        before == pre[w][1] IN
    /\ Len(sales) = Len(before.sales) + 1
    /\ SubSeq(sales, 1, Len(before.sales)) = before.sales
    /\ sales[Len(sales)].customer_id = r.customer_id
    /\ sales[Len(sales)].loyalty_points_generated = r.loyalty_points_generated
    /\ r.customer_id \in DOMAIN customers
    /\ customers[r.customer_id].loyalty_points =
          before.customers[r.customer_id].loyalty_points
              + 1000 * r.loyalty_points_generated

\* C1: create_sale is all-or-nothing.  At every moment of a request, the
\* store holds either both the request's Sale row and the customer's balance
\* raised by loyalty_points_generated, or neither; and a request whose flush,
\* balance update or commit raised leaves the Sale table and the balances as
\* they were before it.
C1_AllOrNothing ==
    \A w \in Workers :
        pre[w] # <<>> =>
            /\ StoreAsBefore(w) \/ SaleAndPointsAdded(w)
            /\ (Answered(w) /\ resp[w][1].status = 500
                  /\ resp[w][1].detail \in {"flush", "update", "commit"})
                   => StoreAsBefore(w)

\* the Sale insert went through and the balance update raised
C1_Witness ==
    \E w \in Workers :
        /\ Answered(w)
        /\ resp[w][1].status = 500
        /\ resp[w][1].detail = "update"
        /\ sess[w].new_sale # <<>>
        /\ Len(sales) = 1

\* C2: whenever create_sale answers 500, whichever step of the guarded block
\* raised, the store holds no Sale and no loyalty adjustment of that request.
C2_Error500LeavesNothing ==
    \A w \in Workers :
        (Answered(w) /\ resp[w][1].status = 500) => StoreAsBefore(w)

\* the balance the Sale table accounts for: 50.00 or 0 to begin with, plus
\* the points of every committed sale of the customer
RECURSIVE PointsOfSales(_, _)
PointsOfSales(c, n) ==
    IF n = 0 THEN 0
    ELSE PointsOfSales(c, n - 1)
           + (IF sales[n].customer_id = c
              THEN 1000 * sales[n].loyalty_points_generated ELSE 0)

\* C3: no lost update.  When the requests of both processes have committed
\* and been answered, the customer's balance is the initial balance plus the
\* sum of their loyalty_points_generated.
C3_NoLostUpdate ==
    (\A w \in Workers : Answered(w) /\ resp[w][1].status = 200) =>
        customers["c1"].loyalty_points = 50000 + PointsOfSales("c1", Len(sales))

RECURSIVE AllocTotal(_, _)
\* the exact sum of the first n allocation amounts
AllocTotal(pms, n) == IF n = 0 THEN 0 ELSE pms[n].amount + AllocTotal(pms, n - 1)

\* C4: payment reconciliation accepts (total_amount, allocations) if and
\* only if the exact sum of the amounts is within 0.01 of total_amount,
\* 0.01 itself included, for every total and every sequence, the empty one too.
C4_ReconcileIffWithinTolerance ==
    recon.handler # "none" =>
        LET diff == AllocTotal(recon.payment_methods, Len(recon.payment_methods))
                        - recon.total_amount IN
        (recon.handler = "accepted") <=> (-10 <= diff /\ diff <= 10)

\* a two-part allocation that is short by exactly 0.01 was accepted
C4_Witness ==
    /\ recon.handler = "accepted"
    /\ Len(recon.payment_methods) = 2
    /\ AllocTotal(recon.payment_methods, 2) - recon.total_amount = -10

\* the stored allocation amounts of a Sale row, read back as Decimals
RECURSIVE StoredPaymentTotal(_, _)
StoredPaymentTotal(sale, n) ==
    IF n = 0 THEN 0
    ELSE StoredPaymentTotal(sale, n - 1) + DecimalOfStr(sale.payment_methods[n].amount)

\* C5: every stored Sale has its stored allocation amounts summing to its
\* stored total_amount within 0.01.
C5_StoredSalesReconcile ==
    \A i \in 1..Len(sales) :
        LET diff == StoredPaymentTotal(sales[i], Len(sales[i].payment_methods))
                        - sales[i].total_amount IN
        -10 <= diff /\ diff <= 10

\* a sale handed to create_sale directly, its allocations short by exactly
\* 0.01, is stored
C5_Witness ==
    \E w \in Workers :
        /\ Answered(w)
        /\ resp[w][1].status = 200
        /\ req[w][1].via = "call"
        /\ Len(sales) = 1
        /\ StoredPaymentTotal(sales[1], Len(sales[1].payment_methods)) = 17990

\* C6: not-found precedence.  A request naming a customer_id that does not
\* exist is answered with the customer 404, whatever its payment allocations;
\* no payment check decides its outcome.  (The caller is taken to pass the
\* admin-or-agent gate.)
C6_CustomerNotFoundFirst ==
    \A w \in Workers :
        (Answered(w) /\ req[w][1].token = AdminToken
            /\ req[w][1].customer_id \notin DOMAIN customers) =>
            /\ resp[w][1].status = 404
            /\ resp[w][1].detail = "Customer not found"

\* create_sale was entered for w's request (a request over HTTP enters it
\* once the framework has built the SaleRequest) and the caller passed the
\* admin-or-agent gate
EnteredHandler(w) ==
    /\ req[w][1].token = AdminToken
    /\ \/ req[w][1].via = "call"
       \/ Abs(AllocTotal(req[w][1].payment_methods, Len(req[w][1].payment_methods))
                 - req[w][1].total_amount) <= 10

\* C7: for a request whose customer exists, a staff_id naming no row and one
\* naming an inactive row get the same 404, also when the payments do not
\* reconcile; an active staff member never gets the staff 404.
C7_StaffCheck ==
    \A w \in Workers :
        (Answered(w) /\ EnteredHandler(w)
            /\ req[w][1].customer_id \in DOMAIN customers) =>
            LET sid == req[w][1].staff_id
                bad == sid \notin DOMAIN staff \/ ~staff[sid].is_active
                notfound == /\ resp[w][1].status = 404
                            /\ resp[w][1].detail = "Staff member not found or inactive"
            IN  bad <=> notfound

\* an inactive staff member with payments that do not reconcile: the 404
C7_Witness ==
    \E w \in Workers :
        /\ Answered(w)
        /\ req[w][1].customer_id = "c1"
        /\ req[w][1].staff_id = "s2"
        /\ req[w][1].via = "call"
        /\ req[w][1].payment_methods = << Cash(17500) >>
        /\ resp[w][1].status = 404

\* C8: a request rejected with 400 or 404 leaves the whole store unchanged
\* and has called add_task for no dispatch.
C8_RejectionChangesNothing ==
    \A w \in Workers :
        (Answered(w) /\ resp[w][1].status \in {400, 404}) =>
            /\ StoreAsBefore(w)
            /\ staff = pre[w][1].staff
            /\ signals = pre[w][1].signals
            /\ sess[w].bg = <<>>

\* a 400 answered after an earlier sale was committed
C8_Witness ==
    \E w \in Workers :
        /\ Answered(w)
        /\ resp[w][1].status = 400
        /\ Len(sales) = 1

\* C9: a request that runs alone and commits leaves its customer's stored
\* balance at the balance before plus loyalty_points_generated, answers with
\* that balance in the customer summary, and changes no other customer.
C9_LoyaltyAccumulation ==
    \A w \in Workers :
        (Answered(w) /\ resp[w][1].status = 200) =>
            LET r == req[w][1]
                before == pre[w][1].customers IN
            /\ customers[r.customer_id].loyalty_points =
                  before[r.customer_id].loyalty_points
                      + 1000 * r.loyalty_points_generated
            /\ resp[w][1].body[1].customer.loyalty_points =
                  customers[r.customer_id].loyalty_points
            /\ \A c \in DOMAIN customers :
                  c # r.customer_id => customers[c] = before[c]

\* 50.00 points and a committed sale granting 18: 68.00
C9_Witness ==
    \E w \in Workers :
        /\ Answered(w)
        /\ resp[w][1].status = 200
        /\ pre[w][1].customers["c1"].loyalty_points = 50000
        /\ customers["c1"].loyalty_points = 68000

\* C10: every scheduled dispatch and every POST is for a sale whose
\* transaction has committed, and a request that is rejected or fails never
\* has a dispatch or a POST.
C10_DispatchAfterCommit ==
    /\ \A w \in Workers : \A i \in 1..Len(sess[w].bg) : sess[w].bg[i].sale_id \in SaleIds
    /\ \A d \in dispatches : d.sale_id \in SaleIds
    /\ \A k \in DOMAIN posts : k[1] \in SaleIds
    /\ \A w \in Workers :
          (Answered(w) /\ resp[w][1].status # 200 /\ sess[w].new_sale # <<>>) =>
              /\ \A d \in dispatches : d.sale_id # sess[w].new_sale[1].id
              /\ \A k \in DOMAIN posts : k[1] # sess[w].new_sale[1].id

\* a POST was issued for a committed sale
C10_Witness ==
    \E k \in DOMAIN posts : posts[k] = 1 /\ k[1] \in SaleIds


\* the dispatch of sale id has loaded its targets, and t was then among the
\* registered active targets of its set (no step of Spec changes a target)
TargetDue(id, t) ==
    \E d \in dispatches :
        /\ d.sale_id = id
        /\ d.phase # "scheduled"
        /\ \/ \E i \in DOMAIN d.loaded : d.loaded[i] = t
           \/ t \in ActiveWebhooks

\* C11: once a committed sale's dispatch has loaded the targets, every
\* target registered and active at that moment, webhook or signal channel,
\* eventually receives a POST for that sale.
C11_EveryActiveTargetPosted ==
    \A id \in IdRange : \A t \in SignalIds \cup WebhookIds :
        [](TargetDue(id, t) => <>(PostCount(id, t) >= 1))

\* the signal channels alone
SignalsPosted ==
    \A id \in IdRange : \A t \in SignalIds :
        [](TargetDue(id, t) => <>(PostCount(id, t) >= 1))

\* the targets the attempts logged for a sale were made on, in order
AttemptedTargets(sale_id) ==
    LET OfSale(a) == a.sale_id = sale_id
        log == SelectSeq(attempts, OfSale)
    IN  [i \in 1..Len(log) |-> log[i].target]

\* the outcomes of the attempts logged for a sale, in order
AttemptOutcomes(sale_id) ==
    LET OfSale(a) == a.sale_id = sale_id
        log == SelectSeq(attempts, OfSale)
    IN  [i \in 1..Len(log) |-> log[i].outcome]

\* C12: dispatch isolation.  Within one call of notify_sale_to_webhooks,
\* whatever the outcomes of the attempts made so far, the targets attempted
\* are exactly those at the head of the loaded list, every target after them
\* is still to be attempted, and the call ends only when the whole list was
\* attempted.
C12_DispatchIsolation ==
    \A d \in dispatches :
        (d.kind = "webhooks" /\ d.phase # "scheduled") =>
            LET k == Len(d.loaded) - Len(d.todo) IN
            /\ k >= 0
            /\ AttemptedTargets(d.sale_id) = SubSeq(d.loaded, 1, k)
            /\ d.todo = SubSeq(d.loaded, k + 1, Len(d.loaded))
            /\ d.phase = "done" <=> d.todo = <<>>

\* three webhooks: the first times out, the second raises while its headers
\* are built, and the third is still attempted and answers 2xx
C12_Witness ==
    \E d \in dispatches :
        /\ d.kind = "webhooks"
        /\ d.phase = "done"
        /\ Len(d.loaded) = 3
        /\ AttemptOutcomes(d.sale_id) = << "timeout", "exception", "2xx" >>

\* C14: no retry.  For every sale and every webhook at most one attempt is
\* made and at most one POST is issued, whatever the first outcome was.
C14_NoRetry ==
    /\ \A k \in DOMAIN posts : posts[k] <= 1
    /\ \A id \in IdRange : \A i, j \in DOMAIN AttemptedTargets(id) :
          AttemptedTargets(id)[i] = AttemptedTargets(id)[j] => i = j

\* a POST that was not answered 2xx, its dispatch over: one POST in all
C14_Witness ==
    \E d \in dispatches :
        /\ d.kind = "webhooks"
        /\ d.phase = "done"
        /\ AttemptOutcomes(d.sale_id) = << "non2xx" >>
        /\ posts[<< d.sale_id, d.loaded[1] >>] = 1

\* C15: every step of notify_sale_to_webhooks (loading the targets, each
\* attempt whatever its outcome) leaves the Sale, Customer, Staff, Product
\* and notification-target tables as they are.
C15_DispatcherWritesNothing ==
    [][(dispatches' # dispatches \/ attempts' # attempts) =>
           UNCHANGED << sales, customers, staff, products, signals, webhooks >>]_vars

\* a dispatch with a failed attempt is over and the sale, the balance and
\* the failing webhook's row are as they were
C15_Witness ==
    \E d \in dispatches :
        /\ d.kind = "webhooks"
        /\ d.phase = "done"
        /\ Len(d.loaded) = 2
        /\ AttemptOutcomes(d.sale_id) = << "error", "non2xx" >>
        /\ sales = << CommittedSale >>
        /\ customers["c1"].loyalty_points = 68000
        /\ \A i \in 1..2 : webhooks[d.loaded[i]].is_active

\* C13: the answer to a create_sale request is given before any attempt of
\* that sale's dispatch, it is the 200 with the projection of the stored Sale
\* and the customer and staff summaries at every stage of the dispatch,
\* whatever the outcomes, and no line of create_sale waits for an attempt:
\* the line a handler is at can always run.
C13_ResponseBeforeDispatch ==
    /\ \A w \in Workers :
          (pc[w] # "idle" /\ sess[w].new_sale # <<>>) =>
              /\ \A i \in DOMAIN attempts : attempts[i].sale_id # sess[w].new_sale[1].id
              /\ \A k \in DOMAIN posts : k[1] # sess[w].new_sale[1].id
    /\ \A w \in Workers :
          (Answered(w) /\ resp[w][1].status = 200) =>
              LET r == req[w][1] IN
              resp[w][1].body =
                  << SaleResponseOf(SaleRow(sess[w].new_sale[1].id),
                                    [id |-> r.customer_id] @@ customers[r.customer_id],
                                    [id |-> r.staff_id] @@ staff[r.staff_id]) >>
    /\ \A w \in Workers : pc[w] # "idle" => ENABLED NextLine(w)

\* the caller has its 200 and the one attempt of the sale's dispatch timed out
C13_Witness ==
    \E w \in Workers :
        /\ Answered(w)
        /\ resp[w][1].status = 200
        /\ AttemptOutcomes(sess[w].new_sale[1].id) = << "timeout" >>

\* the content of a Sale row
SaleContent(sale) ==
    [id |-> sale.id, customer_id |-> sale.customer_id, staff_id |-> sale.staff_id,
     items |-> sale.items, subtotal |-> sale.subtotal,
     discount_amount |-> sale.discount_amount, total_amount |-> sale.total_amount,
     loyalty_points_generated |-> sale.loyalty_points_generated,
     payment_methods |-> sale.payment_methods]

\* C16: a committed Sale is immutable.  Whatever operation of the API runs
\* (create_sale, the reads of sales, the customer, product, staff and
\* notification-target operations), every Sale row of the store is still
\* there after it with the same content.
C16_CommittedSaleImmutable ==
    [][\A i \in 1..Len(sales) :
           /\ i <= Len(sales')
           /\ SaleContent(sales'[i]) = SaleContent(sales[i])]_vars

\* a sale was committed, then its customer's balance was overwritten and its
\* staff member deactivated: the row is as create_sale wrote it
C16_Witness ==
    /\ Len(sales) = 1
    /\ SaleContent(sales[1]) = SaleContent(CommittedSale)
    /\ customers["c1"].loyalty_points = 10000
    /\ ~staff["s1"].is_active
    /\ last # <<>>
    /\ last[1].op = "delete_staff"

\* C17: the line items of a Sale are a snapshot.  Whatever happens to the
\* product a line names (renamed, repriced, deactivated), the stored line keeps
\* the name, unit price and total the request carried, and get_sale returns
\* them.
C17_SnapshotImmutable ==
    /\ \A i \in 1..Len(sales) : \A k \in DOMAIN sales[i].items :
          /\ sales[i].items[k].name = OneItem[k].name
          /\ DecimalOfStr(sales[i].items[k].unit_price) = OneItem[k].unit_price
          /\ DecimalOfStr(sales[i].items[k].total) = OneItem[k].total
    /\ (last # <<>> /\ last[1].op = "get_sale" /\ last[1].status = 200) =>
          \A k \in DOMAIN last[1].body[1].items :
             /\ last[1].body[1].items[k].name = OneItem[k].name
             /\ last[1].body[1].items[k].unit_price = OneItem[k].unit_price
             /\ last[1].body[1].items[k].total = OneItem[k].total

\* product p1 was renamed and repriced after the sale, and get_sale returns
\* the line as sold
C17_Witness ==
    /\ last # <<>>
    /\ last[1].op = "get_sale"
    /\ last[1].status = 200
    /\ products["p1"].name = "Renamed Product"
    /\ products["p1"].price = 25000
    /\ last[1].body[1].items[1].product_id = "p1"
    /\ last[1].body[1].items[1].name = "Test Product"
    /\ last[1].body[1].items[1].unit_price = 18000

\* C18: no idempotency.  Two create_sale requests with the same content that
\* both commit leave two Sale rows with different ids and the customer's
\* balance raised twice.
C18_NoIdempotency ==
    (/\ \A w \in Workers : Answered(w) /\ resp[w][1].status = 200
     /\ req["w1"] = req["w2"]) =>
        /\ Len(sales) = 2
        /\ sales[1].id # sales[2].id
        /\ customers["c1"].loyalty_points =
              50000 + 2 * 1000 * req["w1"][1].loyalty_points_generated

\* C19: create_customer is idempotent on phone.  Called with the phone of an
\* existing customer it answers that customer as stored and leaves the
\* Customer table as it is, whatever name it is given; called with a phone
\* no customer has, it adds one active customer with that phone, the name
\* and loyalty_points 0, and changes no other row.
C19_CreateCustomerIdempotent ==
    [][(ops' # ops /\ last'[1].op = "create_customer" /\ last'[1].status = 200) =>
          LET phone == last'[1].arg.phone
              existing == { c \in DOMAIN customers : customers[c].phone = phone }
              added == DOMAIN customers' \ DOMAIN customers
          IN  IF existing # {}
              THEN /\ customers' = customers
                   /\ \E c \in existing :
                         last'[1].body = << CustomerResponseOf(c, customers[c]) >>
              ELSE /\ Cardinality(added) = 1
                   /\ \A c \in DOMAIN customers :
                         c \in DOMAIN customers' /\ customers'[c] = customers[c]
                   /\ \A c \in added :
                         /\ customers'[c].phone = phone
                         /\ customers'[c].name = last'[1].arg.name
                         /\ customers'[c].loyalty_points = 0
                         /\ customers'[c].is_active
                         /\ last'[1].body = << CustomerResponseOf(c, customers'[c]) >>]_vars

\* called with c1's phone and another name after c1 earned points:
\* c1 comes back under its own name with its balance
C19_Witness ==
    /\ last # <<>>
    /\ last[1].op = "create_customer"
    /\ last[1].status = 200
    /\ last[1].arg.name = "Different Name"
    /\ last[1].body[1].id = "c1"
    /\ last[1].body[1].name = "John Doe"
    /\ last[1].body[1].loyalty_points = 68000
    /\ DOMAIN customers = {"c1", "c2"}

\* C20: product deletion is a soft delete.  delete_product leaves the row in
\* place with is_active false and nothing else changed but updated_at; no
\* operation makes an inactive product active again or removes it; and
\* list_products and search_products return no inactive product.
C20_SoftDelete ==
    /\ [](\A x \in 1..Len(last) :
             (last[x].op \in {"list_products", "search_products"}
                 /\ last[x].status = 200) =>
                 \A r \in last[x].body[1] :
                     r.id \in DOMAIN products /\ products[r.id].is_active)
    /\ [][(ops' # ops /\ last'[1].op = "delete_product" /\ last'[1].status = 200) =>
             LET p == last'[1].arg.product_id IN
             /\ DOMAIN products' = DOMAIN products
             /\ products' = [products EXCEPT
                               ![p] = [@ EXCEPT !.is_active = FALSE,
                                                !.updated_at = products'[p].updated_at]]]_vars
    /\ [][\A p \in DOMAIN products :
             ~products[p].is_active =>
                 p \in DOMAIN products' /\ ~products'[p].is_active]_vars

\* p1 was deleted: its row is there, inactive, and list_products returns
\* nothing
C20_Witness ==
    /\ last # <<>>
    /\ last[1].op = "list_products"
    /\ last[1].status = 200
    /\ last[1].body = << {} >>
    /\ "p1" \in DOMAIN products
    /\ ~products["p1"].is_active
    /\ products["p1"].name = "Test Product"

\* the place of a Sale row among the rows of a table by creation time,
\* newest first, counting from 0
Rank(sale, table) ==
    Cardinality({ j \in 1..Len(table) : table[j].created_at > sale.created_at })

\* an answer of list_sales is the asked page of the table
PageOf(answer, table) ==
    LET body == answer.body[1]
        page == answer.arg.page
        page_size == answer.arg.page_size
        offset == (page - 1) * page_size
        onPage == { j \in 1..Len(table) :
                      /\ Rank(table[j], table) >= offset
                      /\ Rank(table[j], table) <= page * page_size - 1 }
    IN  /\ Len(body.sales) = Cardinality(onPage)
        /\ Len(body.sales) <= page_size
        /\ offset >= Len(table) => body.sales = <<>>
        /\ \A i \in 1..Len(body.sales) :
              \E j \in onPage :
                 /\ table[j].id = body.sales[i].id
                 /\ Rank(table[j], table) = offset + i - 1
        /\ body.total = Len(table)
        /\ body.page = page
        /\ body.page_size = page_size

\* C21: list_sales(page, page_size) answers exactly the sales at positions
\* (page-1)*page_size .. page*page_size-1 of all stored sales ordered by
\* creation time, newest first (at most page_size of them, none when the
\* offset is past the end), with total the number of all stored sales
\* whatever the page, and page and page_size as asked.
C21_ListSalesPage ==
    [][ (ops' = ops + 1 /\ last'[1].op = "list_sales" /\ last'[1].status = 200)
            => PageOf(last'[1], sales) ]_vars

\* page 2 of size 2 over three sales committed out of creation order: the
\* one oldest sale is answered, total 3
C21_Witness ==
    /\ last # <<>>
    /\ last[1].op = "list_sales"
    /\ last[1].status = 200
    /\ last[1].arg.page = 2
    /\ last[1].arg.page_size = 2
    /\ Len(sales) = 3
    /\ sales[1].id = 2
    /\ Len(last[1].body[1].sales) = 1
    /\ last[1].body[1].sales[1].id = 1
    /\ last[1].body[1].total = 3

\* the result record of a test says what the POST met
TestResultOf(outcome, r) ==
    /\ r.success <=> (outcome.kind = "response" /\ outcome.status_code \in 200..299)
    /\ outcome.kind = "response" =>
          /\ r.status_code = << outcome.status_code >>
          /\ r.error = <<>>
    /\ outcome.kind # "response" =>
          /\ ~r.success
          /\ r.status_code = <<>>
          /\ r.response_body = <<>>
          /\ r.error # <<>>

\* C22: testing a target always answers a result record and never raises.
\* For an authorized operator and a registered target, whatever the POST
\* meets, the answer is 200 with a record whose success is true exactly when
\* a response with a status in 200..299 was received; with a response,
\* status_code is its status and error is absent; on a timeout, a transport
\* error or any other exception, success is false, status_code and
\* response_body are absent and error is present.  No table changes.
C22_TestAlwaysAnswers ==
    [][ (ops' = ops + 1 /\ last'[1].op \in {"test_webhook", "test_signal"}) =>
          /\ UNCHANGED << customers, staff, products, sales, signals, webhooks,
                          dispatches, posts >>
          /\ last'[1].status \in {200, 403, 404}
          /\ last'[1].status = 404 =>
                last'[1].arg.id \notin
                    (IF last'[1].op = "test_webhook" THEN DOMAIN webhooks
                     ELSE DOMAIN signals)
          /\ last'[1].status = 403 =>
                require_admin_or_agent(last'[1].arg.token) # "pass"
          /\ last'[1].status = 200 =>
                TestResultOf(last'[1].arg.outcome, last'[1].body[1]) ]_vars

\* a test of webhook h1 met an exception that is neither a timeout nor a
\* transport error, and was answered with a record
C22_Witness ==
    /\ last # <<>>
    /\ last[1].op = "test_webhook"
    /\ last[1].status = 200
    /\ last[1].arg.id = "h1"
    /\ last[1].arg.outcome.kind = "exception"
    /\ ~last[1].body[1].success
    /\ last[1].body[1].error # <<>>

\* the elements of a sequence
Range(q) == { q[i] : i \in DOMAIN q }

\* the targets of one channel that the attempts logged for a sale were on
AttemptedOf(d) ==
    { t \in Range(AttemptedTargets(d.sale_id)) :
        IF d.kind = "webhooks" THEN t \in WebhookIds ELSE t \in SignalIds }

\* the targets active now, for the channel of a dispatch
ActiveFor(d) == IF d.kind = "webhooks" THEN ActiveWebhooks ELSE ActiveSignals

\* C23: the targets notified for a sale are decided when the dispatcher
\* loads them, not when the sale commits.  The list a dispatcher loads is
\* the set of targets active at that moment; only targets of that list are
\* ever attempted, so a target inactive or deleted at load time gets no POST
\* even if it was active at commit time; and a dispatch that is over has
\* attempted every target of its list, among them those created or
\* activated after the commit.
C23_TargetsDecidedAtLoad ==
    /\ [](\A d \in dispatches :
            /\ AttemptedOf(d) \subseteq Range(d.loaded)
            /\ \A t \in SignalIds \cup WebhookIds :
                  (PostCount(d.sale_id, t) > 0 /\ t \in AttemptedOf(d))
                      => t \in Range(d.loaded)
            /\ (d.phase = "done" => AttemptedOf(d) = Range(d.loaded)))
    /\ [][ \A d \in dispatches : \A e \in dispatches' :
             (d.sale_id = e.sale_id /\ d.kind = e.kind
                /\ d.phase = "scheduled" /\ e.phase # "scheduled")
                 => Range(e.loaded) = ActiveFor(d) ]_vars

\* h1 was active and h3 inactive when the sale committed; h1 was deleted and
\* h3 activated before notify_sale_to_webhooks loaded its targets: h3 got the
\* POST and h1 none
C23_Witness ==
    /\ pre["w1"] # <<>>
    /\ "webhooks" \in DOMAIN pre["w1"][1]
    /\ "h1" \in DOMAIN pre["w1"][1].webhooks
    /\ pre["w1"][1].webhooks["h1"].is_active
    /\ ~pre["w1"][1].webhooks["h3"].is_active
    /\ "h1" \notin DOMAIN webhooks
    /\ \E d \in dispatches :
          /\ d.kind = "webhooks"
          /\ d.phase = "done"
          /\ d.loaded = << "h3" >>
          /\ PostCount(d.sale_id, "h3") = 1
          /\ PostCount(d.sale_id, "h1") = 0

\* C24: staff must be active at the time of sale.  Whenever a Sale row is
\* committed, the store records its staff member as active at that moment:
\* once delete_staff(s) has committed, no Sale with staff_id = s is committed.
C24_StaffActiveAtCommit ==
    [][ Len(sales') > Len(sales) =>
          \A i \in (Len(sales) + 1)..Len(sales') :
              /\ sales'[i].staff_id \in DOMAIN staff
              /\ staff[sales'[i].staff_id].is_active ]_vars

\* the POSTs issued for a sale, over all webhooks
PostsOfSale(sale_id) ==
    LET Posted(a) == a.sale_id = sale_id /\ a.outcome \in PostOutcomes
    IN  Len(SelectSeq(attempts, Posted))

\* C25: a dispatch for one sale terminates.  Every attempt ending in success,
\* non-2xx, timeout or error, a call of notify_sale_to_webhooks comes to its
\* end; when it has, it has made as many attempts as it loaded targets and
\* no more POSTs than that; and one that loaded no target makes no POST.
C25_DispatchTerminates ==
    /\ \A id \in IdRange :
          (\E d \in dispatches : d.sale_id = id /\ d.kind = "webhooks")
              ~> (\E d \in dispatches :
                    d.sale_id = id /\ d.kind = "webhooks" /\ d.phase = "done")
    /\ [](\A d \in dispatches :
            /\ Len(AttemptedTargets(d.sale_id)) <= Len(d.loaded)
            /\ d.phase = "done" =>
                  /\ Len(AttemptedTargets(d.sale_id)) = Len(d.loaded)
                  /\ PostsOfSale(d.sale_id) <= Len(d.loaded)
            /\ (d.phase # "scheduled" /\ d.loaded = <<>>) =>
                  /\ d.phase = "done"
                  /\ PostsOfSale(d.sale_id) = 0
                  /\ \A h \in WebhookIds : PostCount(d.sale_id, h) = 0)

\* three webhooks were loaded, every POST timed out, and the call is over
\* after three attempts
C25_Witness ==
    \E d \in dispatches :
        /\ d.kind = "webhooks"
        /\ d.phase = "done"
        /\ Len(d.loaded) = 3
        /\ AttemptOutcomes(d.sale_id) = << "timeout", "timeout", "timeout" >>
        /\ PostsOfSale(d.sale_id) = 3

\* every token: an agent or none, active or not, and a user or none, active
\* or not, ADMIN or MEMBER
AllTokens ==
    { [agent |-> a, user |-> u] :
        a \in { <<>> } \cup { << [is_active |-> b] >> : b \in BOOLEAN },
        u \in { <<>> } \cup { << [is_active |-> b, role |-> r] >> :
                                 b \in BOOLEAN, r \in {"ADMIN", "MEMBER"} } }

\* the token carries an active agent, or no agent and an active ADMIN user
GatePasses(token) ==
    \/ token.agent # <<>> /\ token.agent[1].is_active
    \/ /\ token.agent = <<>>
       /\ token.user # <<>>
       /\ token.user[1].is_active
       /\ token.user[1].role = "ADMIN"

\* C26: every operation of the API is gated by require_admin_or_agent before
\* it touches the store.  The gate passes exactly when the token carries an
\* active agent, or no agent and an active ADMIN user (an inactive agent is
\* rejected even with an active ADMIN user).  An operation is answered 403
\* exactly when its caller's token fails the gate, and then no table
\* changes; create_sale then has read nothing and schedules no dispatch.
C26_GatedOperations ==
    /\ [](\A t \in AllTokens : (require_admin_or_agent(t) = "pass") <=> GatePasses(t))
    /\ [][ ops' = ops + 1 =>
             /\ (last'[1].status = 403) <=> ~GatePasses(last'[1].arg.token)
             /\ last'[1].status = 403 =>
                   UNCHANGED << customers, staff, products, sales, signals,
                                webhooks, dispatches, posts, attempts >> ]_vars
    /\ [][ \A w \in Workers :
             (pc[w] = "auth" /\ pc'[w] # "auth") =>
                 IF GatePasses(req[w][1].token)
                 THEN pc'[w] = "customer"
                 ELSE /\ pc'[w] = "idle"
                      /\ resp'[w][1].status = 403
                      /\ sess'[w] = NoSession
                      /\ UNCHANGED << customers, staff, products, sales, signals,
                                      webhooks, dispatches, posts, attempts >> ]_vars
    /\ [](\A w \in Workers :
            /\ (sess[w] # NoSession /\ req[w] # <<>>) => GatePasses(req[w][1].token)
            /\ (Answered(w) /\ resp[w][1].status = 403) =>
                  /\ ~GatePasses(req[w][1].token)
                  /\ sess[w] = NoSession
            /\ (Answered(w) /\ ~GatePasses(req[w][1].token)) =>
                  resp[w][1].status \in {403, 422})

\* an inactive agent that carries an active ADMIN user was refused a
\* create_sale and then a delete_staff: no sale, no dispatch, s2 as it was
C26_Witness ==
    /\ last # <<>>
    /\ last[1].op = "delete_staff"
    /\ last[1].status = 403
    /\ last[1].arg.token = InactiveAgentAdminToken
    /\ staff["s2"].updated_at = 0
    /\ Answered("w1")
    /\ resp["w1"][1].status = 403
    /\ req["w1"][1].token = InactiveAgentAdminToken
    /\ sales = <<>>
    /\ dispatches = {}

\* the points of the Sale row this step commits for customer c, if any
PointsCommitted(c) ==
    IF Len(sales') > Len(sales) /\ sales'[Len(sales')].customer_id = c
    THEN 1000 * sales'[Len(sales')].loyalty_points_generated
    ELSE 0

\* this step is a committed update_customer_wallet of customer c
WalletSet(c) ==
    /\ ops' = ops + 1
    /\ last'[1].op = "update_customer_wallet"
    /\ last'[1].status = 200
    /\ last'[1].arg.customer_id = c

\* C27: the loyalty ledger.  A customer's balance is 0 at creation, is the
\* value of an update_customer_wallet that commits, grows by
\* loyalty_points_generated with each sale committed for the customer, and
\* changes at no other step, whatever the payment methods: so it always
\* equals its base plus the points of the sales committed since the base
\* was set.
C27_LoyaltyLedger ==
    [][ \A c \in DOMAIN customers' :
          IF c \notin DOMAIN customers
          THEN customers'[c].loyalty_points = 0
          ELSE IF WalletSet(c)
          THEN customers'[c].loyalty_points = last'[1].arg.loyalty_points
          ELSE customers'[c].loyalty_points =
                   customers[c].loyalty_points + PointsCommitted(c) ]_vars

\* C28: the two payment reconciliation checks agree.  For every total and
\* every allocation sequence, SaleRequest's validator accepts exactly when
\* the check inside create_sale accepts, so what passed the schema is never
\* refused by the handler's check; and running the check, a first or a
\* second time, changes nothing but its own verdict.
C28_ChecksAgree ==
    /\ []((recon.schema # "none" /\ recon.handler # "none")
            => recon.schema = recon.handler)
    /\ [](\A w \in Workers :
            (Answered(w) /\ req[w][1].via = "http") => resp[w][1].status # 400)
    /\ [][ recon' # recon =>
             /\ recon'.total_amount = recon.total_amount
             /\ recon'.payment_methods = recon.payment_methods
             /\ UNCHANGED << customers, staff, products, sales, signals, webhooks,
                             dispatches, posts, attempts >> ]_vars

\* an allocation over the total by 0.011 was refused by both checks
C28_Witness ==
    /\ recon.schema = "rejected"
    /\ recon.handler = "rejected"
    /\ AllocTotal(recon.payment_methods, Len(recon.payment_methods))
          - recon.total_amount = 11

\* C29: referential integrity of sales.  Every stored Sale names an existing
\* Customer row and an existing Staff row; no step removes a Customer or a
\* Staff row (delete_staff only deactivates); so get_sale answers every
\* stored sale with its customer and its staff member resolved, and
\* list_sales' joins drop no sale.
C29_SalesReferToRows ==
    /\ [](\A i \in 1..Len(sales) :
            /\ sales[i].customer_id \in DOMAIN customers
            /\ sales[i].staff_id \in DOMAIN staff)
    /\ [][ /\ DOMAIN customers \subseteq DOMAIN customers'
           /\ DOMAIN staff \subseteq DOMAIN staff' ]_vars
    /\ [][ (ops' = ops + 1 /\ last'[1].status = 200) =>
             /\ last'[1].op = "get_sale" =>
                   /\ last'[1].body[1].customer # <<>>
                   /\ last'[1].body[1].customer.id = last'[1].body[1].customer_id
                   /\ last'[1].body[1].staff # <<>>
                   /\ last'[1].body[1].staff.id = last'[1].body[1].staff_id
             /\ last'[1].op = "list_sales" =>
                   /\ (last'[1].arg.page - 1) * last'[1].arg.page_size < Len(sales)
                         => last'[1].body[1].sales # <<>>
                   /\ \A i \in DOMAIN last'[1].body[1].sales :
                         /\ last'[1].body[1].sales[i].customer # <<>>
                         /\ last'[1].body[1].sales[i].staff # <<>> ]_vars

\* staff member s1 made a sale and was deleted: get_sale still answers the
\* sale with s1, now inactive, as its staff member
C29_Witness ==
    /\ last # <<>>
    /\ last[1].op = "get_sale"
    /\ last[1].status = 200
    /\ last[1].body[1].staff.id = "s1"
    /\ ~last[1].body[1].staff.is_active
    /\ ~staff["s1"].is_active
    /\ Len(sales) = 1

\* C30: phone uniqueness.  Whatever the interleaving of create_customer and
\* update_customer calls, two create_customer calls for one phone that both
\* pass the existence check included, no two Customer rows share a phone;
\* no row is removed and no row's phone changes; and update_customer changes
\* nothing but its customer's name and updated_at.
C30_PhoneUnique ==
    /\ [](\A c, d \in DOMAIN customers :
            customers[c].phone = customers[d].phone => c = d)
    /\ [][ \A c \in DOMAIN customers :
             /\ c \in DOMAIN customers'
             /\ customers'[c].phone = customers[c].phone ]_vars
    /\ [][ (ops' = ops + 1 /\ last'[1].op = "update_customer") =>
             /\ DOMAIN customers' = DOMAIN customers
             /\ \A c \in DOMAIN customers :
                   /\ [customers'[c] EXCEPT !.name = customers[c].name,
                                            !.updated_at = customers[c].updated_at]
                         = customers[c]
                   /\ (last'[1].status # 200 \/ c # last'[1].arg.customer_id)
                         => customers'[c] = customers[c] ]_vars

\* both processes found no customer with the phone; one INSERT went through
\* and the other failed on the unique index: one row has the phone
C30_Witness ==
    /\ Answered("w1")
    /\ Answered("w2")
    /\ req["w1"][1].op = "create_customer"
    /\ req["w2"][1].op = "create_customer"
    /\ req["w1"][1].phone = "555-0003"
    /\ req["w2"][1].phone = "555-0003"
    /\ { resp["w1"][1].status, resp["w2"][1].status } = {200, 500}
    /\ Cardinality({ c \in DOMAIN customers : customers[c].phone = "555-0003" }) = 1

====
